---- MODULE Spec2Model ----
(***************************************************************************)
(* Order / payment / inventory lifecycle of the senan e-commerce backend.  *)
(*                                                                         *)
(* The database tables touched by the order workflow are the state:        *)
(*   products  (catalog: whether the row exists; price, stock, salesCount, *)
(*              pstatus: its columns),                                     *)
(*   orders    (a sequence; an order's id is its position),                *)
(*   movements (the append-only inventory ledger, a bag of rows),          *)
(*   users     (accounts: whether the row exists; users: totalOrders and   *)
(*              totalSpent),                                               *)
(*   payments  (a sequence of payment rows).                               *)
(* reqs holds the requests being served: the position of each handler that *)
(* is between two awaits, and the answer of the one that has returned.     *)
(*                                                                         *)
(* A price is held as the decimal text the request carried, in cents.  The *)
(* amounts of an order and totalSpent are JavaScript numbers, IEEE-754     *)
(* doubles, computed with the roundings of the handler's arithmetic.       *)
(***************************************************************************)
EXTENDS Integers, Sequences, FiniteSets, Bags, TLC

VARIABLES catalog, price, stock, salesCount, pstatus, orders, movements,
          accounts, users, payments, clock, fsmIn, reqs

vars == <<catalog, price, stock, salesCount, pstatus, orders, movements,
          accounts, users, payments, clock, fsmIn, reqs>>

dbVars == <<catalog, price, stock, salesCount, pstatus, orders, movements,
            accounts, users, payments>>

-----------------------------------------------------------------------------
(* Status vocabularies: src/src/constants/roles.ts                          *)

OrderStatus ==
    {"PENDING", "CONFIRMED", "PROCESSING", "SHIPPED", "DELIVERED",
     "CANCELLED", "REFUNDED"}

PaymentStatus ==
    {"PENDING", "PAID", "FAILED", "REFUNDED", "PARTIALLY_REFUNDED"}

-----------------------------------------------------------------------------
(* The state machine: src/src/utils/orderStateMachine.ts                    *)

VALID_TRANSITIONS_dropCancel ==
    [s \in OrderStatus |->
        CASE s = "PENDING"    -> {"CONFIRMED", "CANCELLED"}
          [] s = "CONFIRMED"  -> {"PROCESSING", "CANCELLED"}
          [] s = "PROCESSING" -> {"SHIPPED", "CANCELLED"}
          [] s = "SHIPPED"    -> {"DELIVERED"}
          [] s = "DELIVERED"  -> {"REFUNDED"}
          [] s = "CANCELLED"  -> {}
          [] s = "REFUNDED"   -> {}]

VALID_TRANSITIONS ==
    [s \in OrderStatus |->
        CASE s = "PENDING"    -> {"CONFIRMED", "CANCELLED"}
          [] s = "CONFIRMED"  -> {"PROCESSING", "CANCELLED"}
          [] s = "PROCESSING" -> {"SHIPPED", "CANCELLED"}
          [] s = "SHIPPED"    -> {"DELIVERED", "CANCELLED"}
          [] s = "DELIVERED"  -> {"REFUNDED"}
          [] s = "CANCELLED"  -> {}
          [] s = "REFUNDED"   -> {}]

\* 0 when the transition is allowed, otherwise the status code of the ApiError.
validateOrderStatusTransition(currentStatus, newStatus) ==
    LET allowed == VALID_TRANSITIONS[currentStatus]
    IN  IF newStatus \notin allowed THEN 400 ELSE 0

validPayment_retryToPaid ==
    [s \in PaymentStatus |->
        CASE s = "PENDING"            -> {"PAID", "FAILED"}
          [] s = "PAID"               -> {"REFUNDED", "PARTIALLY_REFUNDED"}
          [] s = "FAILED"             -> {"PENDING", "PAID"}
          [] s = "REFUNDED"           -> {}
          [] s = "PARTIALLY_REFUNDED" -> {"REFUNDED"}]

validPayment ==
    [s \in PaymentStatus |->
        CASE s = "PENDING"            -> {"PAID", "FAILED"}
          [] s = "PAID"               -> {"REFUNDED", "PARTIALLY_REFUNDED"}
          [] s = "FAILED"             -> {"PENDING"}
          [] s = "REFUNDED"           -> {}
          [] s = "PARTIALLY_REFUNDED" -> {"REFUNDED"}]

validatePaymentStatusTransition(currentStatus, newStatus) ==
    LET allowed == validPayment[currentStatus]
    IN  IF newStatus \notin allowed THEN 400 ELSE 0

getOrderStatusFromPayment_failedCancels(paymentStatus) ==
    CASE paymentStatus = "PAID"     -> "CONFIRMED"
      [] paymentStatus = "FAILED"   -> "CANCELLED"
      [] paymentStatus = "REFUNDED" -> "REFUNDED"
      [] OTHER                      -> "PENDING"

getOrderStatusFromPayment(paymentStatus) ==
    CASE paymentStatus = "PAID"     -> "CONFIRMED"
      [] paymentStatus = "FAILED"   -> "PENDING"
      [] paymentStatus = "REFUNDED" -> "REFUNDED"
      [] OTHER                      -> "PENDING"

-----------------------------------------------------------------------------
(* Payment providers: src/unnamed/part_007                                  *)

\* "none" stands for a field the request body omits, and for null.
None == "none"

PaymentMethod ==
    {"CHAPA", "TELEBIRR", "SANTIM_PAY", "CASH_ON_DELIVERY", "BANK_TRANSFER"}

\* Names that every object literal inherits from Object.prototype: byMethod
\* has no own property of these names, but byMethod[name] is defined.
ObjectPrototypeKeys ==
    {"constructor", "toString", "toLocaleString", "valueOf", "hasOwnProperty",
     "isPrototypeOf", "propertyIsEnumerable", "__proto__",
     "__defineGetter__", "__defineSetter__", "__lookupGetter__",
     "__lookupSetter__"}

\* byMethod[method] ?? null: the provider of the method, the inherited member
\* for a name of Object.prototype, "none" when the lookup is undefined.
getPaymentProvider(method) ==
    IF method \in {"CHAPA", "TELEBIRR", "SANTIM_PAY"} THEN "mockProvider"
    ELSE IF method \in ObjectPrototypeKeys THEN "Object.prototype." \o method
    ELSE None

-----------------------------------------------------------------------------
(* JavaScript numbers.  The handlers compute money with the Number type:    *)
(* Number(product.price) * item.quantity, subtotal += itemSubtotal,         *)
(* subtotal * 0.15, subtotal > 500 (order.controller.ts 667-687).  A double *)
(* x is held as the natural number x * 2^FracBits, written in limbs of      *)
(* LimbBits bits, lowest limb first and no zero limb on top; every double   *)
(* between 2^-22 and 2^53 is such a number.  Each operation computes the    *)
(* exact result and rounds it to MantissaBits significant bits, ties to     *)
(* even, as IEEE-754 does.                                                  *)

LimbBits == 15

Base == 32768

FracLimbs == 5

FracBits == FracLimbs * LimbBits

MantissaBits == 53

RECURSIVE pow2(_)
pow2(k) == IF k = 0 THEN 1 ELSE 2 * pow2(k - 1)

RECURSIVE natNorm(_)
natNorm(a) ==
    IF a = <<>> THEN a
    ELSE IF a[Len(a)] = 0 THEN natNorm(SubSeq(a, 1, Len(a) - 1)) ELSE a

RECURSIVE natOf(_)
natOf(n) == IF n = 0 THEN <<>> ELSE <<n % Base>> \o natOf(n \div Base)

RECURSIVE natToInt(_)
natToInt(a) == IF a = <<>> THEN 0 ELSE a[1] + Base * natToInt(Tail(a))

RECURSIVE natAddC(_, _, _)
natAddC(a, b, c) ==
    IF a = <<>> /\ b = <<>> THEN (IF c = 0 THEN <<>> ELSE <<c>>)
    ELSE LET x == IF a = <<>> THEN 0 ELSE a[1]
             y == IF b = <<>> THEN 0 ELSE b[1]
             s == x + y + c
         IN  <<s % Base>> \o natAddC(IF a = <<>> THEN a ELSE Tail(a),
                                    IF b = <<>> THEN b ELSE Tail(b),
                                    s \div Base)

natAdd(a, b) == natAddC(a, b, 0)

\* a - b with borrow c, for a >= b.
RECURSIVE natSubB(_, _, _)
natSubB(a, b, c) ==
    IF a = <<>> THEN <<>>
    ELSE LET y == IF b = <<>> THEN 0 ELSE b[1]
             d == a[1] - y - c
         IN  <<IF d < 0 THEN d + Base ELSE d>>
                \o natSubB(Tail(a), IF b = <<>> THEN b ELSE Tail(b),
                           IF d < 0 THEN 1 ELSE 0)

natSub(a, b) == natNorm(natSubB(a, b, 0))

RECURSIVE natMulSmallC(_, _, _)
natMulSmallC(a, k, c) ==
    IF a = <<>> THEN (IF c = 0 THEN <<>> ELSE <<c>>)
    ELSE LET s == a[1] * k + c
         IN  <<s % Base>> \o natMulSmallC(Tail(a), k, s \div Base)

\* a * k for 0 <= k < Base.
natMulSmall(a, k) == IF k = 0 THEN <<>> ELSE natMulSmallC(a, k, 0)

RECURSIVE natMul(_, _)
natMul(a, b) ==
    IF a = <<>> \/ b = <<>> THEN <<>>
    ELSE LET rest == natMul(a, Tail(b))
         IN  natAdd(natMulSmall(a, b[1]),
                    IF rest = <<>> THEN rest ELSE <<0>> \o rest)

\* <<quotient, remainder>> of a by k, for 0 < k < Base.
RECURSIVE natDivModSmall(_, _)
natDivModSmall(a, k) ==
    IF a = <<>> THEN <<a, 0>>
    ELSE LET hi  == natDivModSmall(Tail(a), k)
             cur == hi[2] * Base + a[1]
         IN  <<natNorm(<<cur \div k>> \o hi[1]), cur % k>>

RECURSIVE bitsOf(_)
bitsOf(n) == IF n = 0 THEN 0 ELSE 1 + bitsOf(n \div 2)

bitLen(a) ==
    IF a = <<>> THEN 0 ELSE (Len(a) - 1) * LimbBits + bitsOf(a[Len(a)])

\* floor(a / 2^s) and a * 2^s.
shr(a, s) ==
    LET k == s \div LimbBits
    IN  IF k >= Len(a) THEN <<>>
        ELSE natDivModSmall(SubSeq(a, k + 1, Len(a)), pow2(s % LimbBits))[1]

shl(a, s) ==
    IF a = <<>> THEN a
    ELSE [i \in 1 .. (s \div LimbBits) |-> 0]
             \o natMulSmall(a, pow2(s % LimbBits))

isOdd(a) == a # <<>> /\ a[1] % 2 = 1

RECURSIVE natLess(_, _)
natLess(a, b) ==
    IF Len(a) # Len(b) THEN Len(a) < Len(b)
    ELSE IF a = <<>> THEN FALSE
    ELSE IF a[Len(a)] # b[Len(b)] THEN a[Len(a)] < b[Len(b)]
    ELSE natLess(SubSeq(a, 1, Len(a) - 1), SubSeq(b, 1, Len(b) - 1))

\* a / 2^s rounded to the nearest integer, ties to even; sticky tells that
\* the exact value lies above a.
roundShift(a, s, sticky) ==
    IF s = 0 THEN a
    ELSE LET q1  == shr(a, s - 1)
             low == sticky \/ shl(q1, s - 1) # a
             q   == shr(q1, 1)
         IN  IF isOdd(q1) /\ (low \/ isOdd(q)) THEN natAdd(q, <<1>>) ELSE q

maxOf(a, b) == IF a > b THEN a ELSE b

\* The double nearest to n / 2^(FracBits + extra).
roundToDouble(n, extra, sticky) ==
    LET s == maxOf(bitLen(n) - MantissaBits, extra)
    IN  shl(roundShift(n, s, sticky), s - extra)

\* The double of an integer literal or of a quantity.
fromInt(n) == shl(natOf(n), FracBits)

\* Number(x) for the decimal x = cents / 100: the nearest double.
Number(cents) ==
    LET d == natDivModSmall(shl(natOf(cents), FracBits + LimbBits), 100)
    IN  roundToDouble(d[1], LimbBits, d[2] # 0)

\* x + y, x - y (for x >= y), x * y and x > y of doubles.
fadd(x, y) == roundToDouble(natAdd(x, y), 0, FALSE)

fsub(x, y) == roundToDouble(natSub(x, y), 0, FALSE)

fmul(x, y) == roundToDouble(natMul(x, y), FracBits, FALSE)

fgt(x, y) == natLess(y, x)

\* The amount x read to four decimals, in units of 1 / Scale.
Scale == 10000

toScale(x) == natToInt(roundShift(natMulSmall(x, Scale), FracBits, FALSE))

-----------------------------------------------------------------------------
(* Catalogue and users the handlers run against.                            *)

ProductIds == {"p1", "p2", "p3"}

\* An id that resolves to no product row.
MissingProduct == "p0"

\* The trackInventory column of the product rows.  No handler writes it
\* (createProductSchema has no such field), so a row has the value the
\* table gives it; the catalogue holds rows of both kinds.
trackInventory == [p \in ProductIds |-> p # "p3"]

UserIds == {"u1"}

\* Bounds of the exploration.
InitStock == 2
MaxStock == 3
MaxQty == 2
MaxItems == 2
MaxOrders == 2
MaxMovements == 4
MaxClock == 4

\* The bodies of the createProduct requests: price as the decimal text of
\* the JSON number in cents, stock, and the optional status.
productTemplates ==
    [p \in ProductIds |->
        CASE p = "p1" -> [price |-> 10000, stock |-> InitStock, status |-> "ACTIVE"]
          [] p = "p2" -> [price |-> 16665, stock |-> InitStock, status |-> None]
          [] p = "p3" -> [price |-> 5, stock |-> 0, status |-> "ACTIVE"]]

NoFsmIn == [kind |-> "none", cur |-> "PENDING", new |-> "PENDING"]

\* The tables of a database that holds no row yet.
InitDb ==
    /\ catalog = [p \in ProductIds |-> "absent"]
    /\ price = [p \in ProductIds |-> 0]
    /\ stock = [p \in ProductIds |-> 0]
    /\ salesCount = [p \in ProductIds |-> 0]
    /\ pstatus = [p \in ProductIds |-> None]
    /\ orders = <<>>
    /\ movements = EmptyBag
    /\ accounts = [u \in UserIds |-> "absent"]
    /\ users = [u \in UserIds |-> [totalOrders |-> 0, totalSpent |-> fromInt(0)]]
    /\ payments = <<>>
    /\ clock = 0

productExists(p) == p \in ProductIds /\ catalog[p] = "present"

userExists(u) == u \in UserIds /\ accounts[u] = "present"

-----------------------------------------------------------------------------
(* createOrder, the computation of the order row:                           *)
(* src/src/controllers/order.controller.ts 649-687                          *)

TaxRatePercent == 15
FreeShippingThreshold == 500
ShippingFee == 25

Items == [productId : ProductIds \cup {MissingProduct}, quantity : 1 .. MaxQty]

ItemLists == UNION {[1 .. n -> Items] : n \in 1 .. MaxItems}

\* prisma.product.findMany({ where: { id: { in: productIds } } }): the rows
\* whose id occurs in the list, each row once.
findManyProducts(items) ==
    {p \in ProductIds :
        productExists(p) /\ \E i \in DOMAIN items : items[i].productId = p}

someProductsNotFound_perItem(items) ==
    \E i \in DOMAIN items : items[i].productId \notin findManyProducts(items)

someProductsNotFound(items) ==
    Cardinality(findManyProducts(items)) # Len(items)

\* The stock test of the pre-check loop and of the re-check inside the
\* transaction, against the stock the reads return.
insufficientStock(items, stk) ==
    \E i \in DOMAIN items :
        /\ trackInventory[items[i].productId]
        /\ stk[items[i].productId] < items[i].quantity

\* itemSubtotal = Number(product.price) * item.quantity
orderItems(items) ==
    [i \in DOMAIN items |->
        [productId |-> items[i].productId,
         price     |-> price[items[i].productId],
         quantity  |-> items[i].quantity,
         subtotal  |-> fmul(Number(price[items[i].productId]),
                            fromInt(items[i].quantity))]]

\* let subtotal = 0; subtotal += itemSubtotal, item after item.
RECURSIVE sumSubtotals(_)
sumSubtotals(its) ==
    IF its = <<>> THEN fromInt(0)
    ELSE fadd(sumSubtotals(SubSeq(its, 1, Len(its) - 1)), its[Len(its)].subtotal)

\* subtotal * 0.15
taxOf(subtotal) == fmul(subtotal, Number(TaxRatePercent))

\* subtotal > 500 ? 0 : 25
shippingCostOf(subtotal) ==
    IF fgt(subtotal, fromInt(FreeShippingThreshold))
    THEN fromInt(0) ELSE fromInt(ShippingFee)

\* The order row of tx.order.create, items included.
newOrderRow(u, items, orderNumber) ==
    LET its      == orderItems(items)
        subtotal == sumSubtotals(its)
        tax      == taxOf(subtotal)
        shipping == shippingCostOf(subtotal)
        discount == fromInt(0)
    IN  [orderNumber   |-> orderNumber,
         userId        |-> u,
         items         |-> its,
         subtotal      |-> subtotal,
         tax           |-> tax,
         shippingCost  |-> shipping,
         discount      |-> discount,
         total         |-> fsub(fadd(fadd(subtotal, tax), shipping), discount),
         orderStatus   |-> "PENDING",
         paymentStatus |-> "PENDING",
         paidAt        |-> 0,
         shippedAt     |-> 0,
         deliveredAt   |-> 0,
         cancelledAt   |-> 0]

\* The order data of a request that has computed none.
NoOrder ==
    [orderNumber |-> 0, userId |-> None, items |-> <<>>,
     subtotal |-> <<>>, tax |-> <<>>, shippingCost |-> <<>>,
     discount |-> <<>>, total |-> <<>>,
     orderStatus |-> None, paymentStatus |-> None,
     paidAt |-> 0, shippedAt |-> 0, deliveredAt |-> 0, cancelledAt |-> 0]

movementRow(p, delta, type, ref) ==
    [productId |-> p, quantityDelta |-> delta, type |-> type, referenceId |-> ref]

addMovement_lost(ms, m) == ms

addMovement(ms, m) == ms (+) SetToBag({m})

\* The product tables as one record, so that the loops can thread them.
productTables ==
    [stock |-> stock, salesCount |-> salesCount, pstatus |-> pstatus,
     movements |-> movements, err |-> 0]

\* One round of the deduction loop for an item whose product was read with
\* stock readStock and status readStatus: the guard on the value read, then
\* the relative update of the row and the SALE movement.
deductItem_noSalesCount(d, it, oid, readStock, readStatus) ==
    LET p        == it.productId
        newStock == readStock - it.quantity
    IN  IF ~trackInventory[p] THEN d
        ELSE IF newStock < 0 THEN [d EXCEPT !.err = 400]
        ELSE [d EXCEPT
                !.stock[p]      = @ - it.quantity,
                !.pstatus[p]    = IF newStock = 0 THEN "OUT_OF_STOCK" ELSE readStatus,
                !.movements     = addMovement(@, movementRow(p, -it.quantity, "SALE", oid))]

deductItem(d, it, oid, readStock, readStatus) ==
    LET p        == it.productId
        newStock == readStock - it.quantity
    IN  IF ~trackInventory[p] THEN d
        ELSE IF newStock < 0 THEN [d EXCEPT !.err = 400]
        ELSE [d EXCEPT
                !.stock[p]      = @ - it.quantity,
                !.salesCount[p] = @ + it.quantity,
                !.pstatus[p]    = IF newStock = 0 THEN "OUT_OF_STOCK" ELSE readStatus,
                !.movements     = addMovement(@, movementRow(p, -it.quantity, "SALE", oid))]

\* totalOrders: { increment: 1 }, totalSpent: { increment: total }
userAfterOrder(usr, total) ==
    [usr EXCEPT !.totalOrders = @ + 1, !.totalSpent = fadd(@, total)]

-----------------------------------------------------------------------------
(* Requests.  A handler is an async function: it runs up to its next await, *)
(* and the statement it awaits is applied by the database at some later     *)
(* moment, other requests running in between.  An action below is one       *)
(* awaited statement being applied, together with the code of the handler   *)
(* that runs when the statement has answered, up to the next await or to    *)
(* the answer of the request.  reqs[r] is the request served on connection  *)
(* r: where the handler stands, what it has read so far, and, once it has   *)
(* returned, the answer it sent.                                            *)

NumProcs == 2

Procs == 1 .. NumProcs

IdleReq ==
    [op |-> "idle", pc |-> "idle", code |-> 0, failedAt |-> "none",
     u |-> "none", items |-> <<>>, order |-> NoOrder, orderNumber |-> 0,
     i |-> 0, seen |-> <<>>, readStock |-> 0, readStatus |-> "none",
     writes |-> <<>>, productId |-> "none", operation |-> "none",
     quantity |-> 0, type |-> "none", oid |-> 0, data |-> {}, total |-> 0,
     todo |-> {}, stmts |-> {}, fields |-> {}, bprice |-> 0, bstock |-> 0,
     bstatus |-> "none", orderStatus |-> "none", paymentStatus |-> "none",
     now |-> 0, method |-> "none", hasTx |-> FALSE, success |-> FALSE,
     pay |-> 0, updated |-> 0, userId |-> "none"]

\* The connection can take a request: its handler has answered and none of
\* the statements it issued is still to be applied.
free(r) == reqs[r].pc \in {"idle", "done"} /\ reqs[r].todo = {}

\* The request that was answered with status code `code`.
answered(op, code) == [IdleReq EXCEPT !.op = op, !.pc = "done", !.code = code]

finish(r, code) == [answered(reqs[r].op, code) EXCEPT !.oid = reqs[r].oid]

\* The request a rejected statement ends: the catch block hands the error to
\* errorHandler, which answers 500 for an error without a status code.
failed(r) == [finish(r, 500) EXCEPT !.failedAt = reqs[r].pc]

\* The answer on the first connection.
resp == reqs[1]

\* A handler that awaits nothing answers in the step it is called.
Answer(op, code) ==
    /\ free(1)
    /\ reqs' = [reqs EXCEPT ![1] = answered(op, code)]

\* A handler that awaits one statement answers when the statement has.
Reply(r, op, code) ==
    /\ free(r)
    /\ reqs' = [reqs EXCEPT ![r] = answered(op, code)]

\* Product rows updated by a transaction of another request that has not
\* ended yet.
lockedByOther(r, p) ==
    \E r2 \in Procs \ {r} :
        /\ reqs[r2].op = "createOrder"
        /\ reqs[r2].pc \notin {"idle", "done"}
        /\ \E k \in DOMAIN reqs[r2].writes :
              reqs[r2].items[reqs[r2].writes[k].i].productId = p

userLockedByOther(r, u) ==
    \E r2 \in Procs \ {r} :
        /\ reqs[r2].op = "createOrder"
        /\ reqs[r2].pc = "commit"
        /\ reqs[r2].u = u

\* Another transaction holds an order row it has inserted and not committed.
orderInsertedByOther(r) ==
    \E r2 \in Procs \ {r} :
        /\ reqs[r2].op = "createOrder"
        /\ reqs[r2].pc \in {"deductRead", "deductUpdate", "deductMovement",
                            "user", "commit"}

\* Orders the running createOrder requests may still insert.
pendingCreates ==
    Cardinality({r \in Procs : reqs[r].op = "createOrder"
                                 /\ reqs[r].pc \notin {"idle", "done"}})

pendingMovements == Cardinality({r \in Procs : ~free(r)}) * MaxItems

\* The handlers whose first statement is awaited whatever the request holds.
HandlerNames ==
    {"register", "createProduct", "updateProduct", "deleteProduct",
     "createOrder", "updateStock", "cancelOrder", "updateOrderStatus",
     "processPayment", "initiatePayment", "paymentWebhook",
     "getOrderById", "getAllOrders", "getUserOrders"}

\* The first statement of a handler rejects (the database is unreachable):
\* nothing was written and the request is answered 500.
RejectFirst(r, op) ==
    /\ free(r)
    /\ reqs' = [reqs EXCEPT ![r] = [answered(op, 500) EXCEPT !.failedAt = "first"]]
    /\ UNCHANGED <<dbVars, clock, fsmIn>>

-----------------------------------------------------------------------------
(* register: src/src/controllers/setting.controller.ts 184-250              *)
(* deleteUser: src/unnamed/part_005 157-177                                 *)

\* The requesters: the users who place orders, another customer and an
\* administrator; then the two remaining roles of roles.ts.
Callers == UserIds \cup {"u2", "admin1"}

Staff == {"manager1", "seller1"}

\* The role in the token of a requester.
role ==
    [u \in Callers \cup Staff |->
        CASE u = "admin1" -> "ADMIN"
          [] u = "manager1" -> "MANAGER"
          [] u = "seller1" -> "SELLER"
          [] OTHER -> "CUSTOMER"]

\* authorize(...allowedRoles) behind authenticate: 0 lets the request through.
authorize(allowedRoles, u) == IF role[u] \in allowedRoles THEN 0 ELSE 403

\* Lines 195-201: prisma.user.findUnique by the e-mail address of u, 409 when
\* a row has it.  The row register creates has the id u; a row deleted
\* earlier does not come back (a new row would have a new id), so no request
\* registers the address again.
RegFind(r, u) ==
    /\ free(r)
    /\ accounts[u] # "deleted"
    /\ ~userLockedByOther(r, u)
    /\ reqs' = [reqs EXCEPT ![r] =
          IF userExists(u) THEN answered("register", 409)
          ELSE [IdleReq EXCEPT !.op = "register", !.u = u, !.pc = "hash"]]
    /\ UNCHANGED <<dbVars, clock, fsmIn>>

\* Line 204: hashPassword.
RegHash(r) ==
    /\ reqs[r].op = "register" /\ reqs[r].pc = "hash"
    /\ reqs' = [reqs EXCEPT ![r] = [@ EXCEPT !.pc = "create"]]
    /\ UNCHANGED <<dbVars, clock, fsmIn>>

\* Lines 207-231: prisma.user.create.  findUnique takes the e-mail address as
\* its key, so the column is unique: when another request has created the
\* row since the lookup, the statement rejects (P2002, answered 409).
RegCreate(r) ==
    /\ reqs[r].op = "register" /\ reqs[r].pc = "create"
    /\ accounts[reqs[r].u] # "deleted"
    /\ IF userExists(reqs[r].u)
       THEN /\ reqs' = [reqs EXCEPT ![r] =
                          [finish(r, 409) EXCEPT !.failedAt = "create"]]
            /\ UNCHANGED <<accounts, users>>
       ELSE /\ accounts' = [accounts EXCEPT ![reqs[r].u] = "present"]
            /\ users' = [users EXCEPT ![reqs[r].u] =
                            [totalOrders |-> 0, totalSpent |-> fromInt(0)]]
            /\ reqs' = [reqs EXCEPT ![r] = [@ EXCEPT !.pc = "session"]]
    /\ UNCHANGED <<catalog, price, stock, salesCount, pstatus, orders,
                   movements, payments, clock, fsmIn>>

\* Lines 234-246: prisma.session.create, then the answer.
RegSession(r) ==
    /\ reqs[r].op = "register" /\ reqs[r].pc = "session"
    /\ reqs' = [reqs EXCEPT ![r] = [finish(r, 201) EXCEPT !.u = reqs[r].u]]
    /\ UNCHANGED <<dbVars, clock, fsmIn>>

\* Lines 247-249: hashPassword, user.create or session.create rejects; the
\* handler opens no transaction, so a user row already created stays.
RegFail(r) ==
    /\ reqs[r].op = "register" /\ reqs[r].pc \in {"hash", "create", "session"}
    /\ reqs' = [reqs EXCEPT ![r] = [failed(r) EXCEPT !.u = reqs[r].u]]
    /\ UNCHANGED <<dbVars, clock, fsmIn>>

\* DELETE /users/:id, behind authorize(ADMIN).
DeleteUser(r, u, id) ==
    /\ ~userLockedByOther(r, id)
    /\ IF authorize({"ADMIN"}, u) # 0
       THEN Reply(r, "deleteUser", 403) /\ UNCHANGED <<accounts, users>>
       ELSE IF id = u
       THEN Reply(r, "deleteUser", 400) /\ UNCHANGED <<accounts, users>>
       ELSE IF ~userExists(id)
       THEN Reply(r, "deleteUser", 404) /\ UNCHANGED <<accounts, users>>
       ELSE /\ accounts' = [accounts EXCEPT ![id] = "deleted"]
            /\ users' = [users EXCEPT ![id] =
                            [totalOrders |-> 0, totalSpent |-> fromInt(0)]]
            /\ Reply(r, "deleteUser", 200)
    /\ UNCHANGED <<catalog, price, stock, salesCount, pstatus, orders,
                   movements, payments, clock, fsmIn>>

\* prisma.user.delete rejects for another reason than a missing row.
DeleteUserFail(r, u, id) ==
    /\ authorize({"ADMIN"}, u) = 0 /\ id # u
    /\ free(r)
    /\ reqs' = [reqs EXCEPT ![r] =
                  [answered("deleteUser", 500) EXCEPT !.failedAt = "first"]]
    /\ UNCHANGED <<dbVars, clock, fsmIn>>

-----------------------------------------------------------------------------
(* createProduct, updateProduct, deleteProduct:                             *)
(* src/src/controllers/product.controller.ts 138-230                        *)

\* prisma.product.create: p is the id the database gives the new row.
CreateProduct(r, p, body) ==
    /\ catalog[p] = "absent"
    /\ catalog' = [catalog EXCEPT ![p] = "present"]
    /\ price' = [price EXCEPT ![p] = body.price]
    /\ stock' = [stock EXCEPT ![p] = body.stock]
    /\ salesCount' = [salesCount EXCEPT ![p] = 0]
    /\ pstatus' = [pstatus EXCEPT ![p] =
                      IF body.status = None THEN "DRAFT" ELSE body.status]
    /\ Reply(r, "createProduct", 201)
    /\ UNCHANGED <<orders, movements, accounts, users, payments, clock, fsmIn>>

\* The request whose body has the fields of `body`.
updateRequest(p, body) ==
    [IdleReq EXCEPT
        !.op = "updateProduct", !.productId = p, !.fields = DOMAIN body,
        !.bprice  = IF "price" \in DOMAIN body THEN body.price ELSE 0,
        !.bstock  = IF "stock" \in DOMAIN body THEN body.stock ELSE 0,
        !.bstatus = IF "status" \in DOMAIN body THEN body.status ELSE "none"]

\* prisma.product.update({ where: { id }, data: updateData }) of request q:
\* the fields the body carries are written as they are; the update of a row
\* that is gone rejects (P2025, answered 404).
productUpdate(r, q) ==
    /\ q.productId \in ProductIds => ~lockedByOther(r, q.productId)
    /\ IF ~productExists(q.productId)
       THEN /\ reqs' = [reqs EXCEPT ![r] = answered("updateProduct", 404)]
            /\ UNCHANGED <<price, stock, pstatus>>
       ELSE /\ price' = IF "price" \in q.fields
                        THEN [price EXCEPT ![q.productId] = q.bprice] ELSE price
            /\ stock' = IF "stock" \in q.fields
                        THEN [stock EXCEPT ![q.productId] = q.bstock] ELSE stock
            /\ pstatus' = IF "status" \in q.fields
                          THEN [pstatus EXCEPT ![q.productId] = q.bstatus]
                          ELSE pstatus
            /\ reqs' = [reqs EXCEPT ![r] = answered("updateProduct", 200)]
    /\ UNCHANGED <<catalog, salesCount, orders, movements, accounts, users,
                   payments, clock, fsmIn>>

\* Lines 180-203.  A body with status ACTIVE awaits prisma.product.findUnique
\* first (190-195, for publishedAt, a column no other handler reads); any
\* other body awaits the update alone.
UpdateProduct(r, p, body) ==
    /\ free(r)
    /\ IF updateRequest(p, body).bstatus = "ACTIVE"
       THEN /\ p \in ProductIds => ~lockedByOther(r, p)
            /\ reqs' = [reqs EXCEPT ![r] =
                          [updateRequest(p, body) EXCEPT !.pc = "update"]]
            /\ UNCHANGED <<dbVars, clock, fsmIn>>
       ELSE productUpdate(r, updateRequest(p, body))

\* Lines 197-209: the update of a request that has made the lookup.
UpdateProductWrite(r) ==
    /\ reqs[r].op = "updateProduct" /\ reqs[r].pc = "update"
    /\ productUpdate(r, reqs[r])

\* Lines 210-212: the update awaited after the lookup rejects.
UpdateProductFail(r) ==
    /\ reqs[r].op = "updateProduct" /\ reqs[r].pc = "update"
    /\ reqs' = [reqs EXCEPT ![r] = failed(r)]
    /\ UNCHANGED <<dbVars, clock, fsmIn>>

\* prisma.product.delete({ where: { id } }).
DeleteProduct(r, p) ==
    /\ p \in ProductIds => ~lockedByOther(r, p)
    /\ IF ~productExists(p)
       THEN /\ Reply(r, "deleteProduct", 404)
            /\ UNCHANGED <<catalog, price, stock, salesCount, pstatus>>
       ELSE /\ catalog' = [catalog EXCEPT ![p] = "deleted"]
            /\ price' = [price EXCEPT ![p] = 0]
            /\ stock' = [stock EXCEPT ![p] = 0]
            /\ salesCount' = [salesCount EXCEPT ![p] = 0]
            /\ pstatus' = [pstatus EXCEPT ![p] = None]
            /\ Reply(r, "deleteProduct", 200)
    /\ UNCHANGED <<orders, movements, accounts, users, payments, clock, fsmIn>>

-----------------------------------------------------------------------------
(* Specification of the pure functions of the state machine: the initial    *)
(* state draws the input, the action applies the function.                  *)

\* The method names getPaymentProvider is applied to: the five methods, a
\* name of no method, the lower-case provider names of the webhook route, and
\* names of Object.prototype.
MethodNames ==
    PaymentMethod \cup {"PAYPAL", "chapa", ""} \cup ObjectPrototypeKeys

FsmInit ==
    /\ InitDb
    /\ reqs = [r \in Procs |-> IdleReq]
    /\ fsmIn \in [kind : {"order"}, cur : OrderStatus, new : OrderStatus]
            \cup [kind : {"payment"}, cur : PaymentStatus, new : PaymentStatus]
            \cup [kind : {"method"}, cur : MethodNames, new : {None}]

CallValidateOrder ==
    /\ fsmIn.kind = "order"
    /\ resp.op = "idle"
    /\ Answer("validateOrderStatusTransition",
              validateOrderStatusTransition(fsmIn.cur, fsmIn.new))
    /\ UNCHANGED <<dbVars, clock, fsmIn>>

CallValidatePayment ==
    /\ fsmIn.kind = "payment"
    /\ resp.op = "idle"
    /\ Answer("validatePaymentStatusTransition",
              validatePaymentStatusTransition(fsmIn.cur, fsmIn.new))
    /\ UNCHANGED <<dbVars, clock, fsmIn>>

\* The derived order status replaces the second status of the input.
CallGetOrderStatusFromPayment ==
    /\ fsmIn.kind = "payment"
    /\ resp.op = "idle"
    /\ Answer("getOrderStatusFromPayment", 0)
    /\ fsmIn' = [kind |-> "derived", cur |-> fsmIn.cur,
                 new |-> getOrderStatusFromPayment(fsmIn.cur)]
    /\ UNCHANGED <<dbVars, clock>>

\* The provider found replaces the second field of the input.
CallGetPaymentProvider ==
    /\ fsmIn.kind = "method"
    /\ resp.op = "idle"
    /\ Answer("getPaymentProvider", 0)
    /\ fsmIn' = [kind |-> "provider", cur |-> fsmIn.cur,
                 new |-> getPaymentProvider(fsmIn.cur)]
    /\ UNCHANGED <<dbVars, clock>>

FsmNext ==
    \/ CallValidateOrder
    \/ CallValidatePayment
    \/ CallGetOrderStatusFromPayment
    \/ CallGetPaymentProvider

FsmSpec == FsmInit /\ [][FsmNext]_vars

-----------------------------------------------------------------------------
(* createOrder: src/src/controllers/order.controller.ts 634-791             *)
(*                                                                          *)
(* prisma.$transaction(async (tx) => ...) runs its statements in one        *)
(* database transaction at the isolation level the database defaults to,    *)
(* READ COMMITTED with row locks on the SQL Server of the README: what the  *)
(* transaction writes becomes visible to the others at its commit, and      *)
(* never if it throws; a row it has written can be neither read nor written *)
(* by another request before it ends (the other statement waits); a read    *)
(* holds no lock once it has returned.  The relative updates                *)
(* ({ decrement } / { increment }) apply to the row as it is when the       *)
(* UPDATE runs, not as it was read.  No source file declares a constraint   *)
(* on a table; the ones modelled are those a statement of a handler implies. *)

\* Lines 654-664, the tests on the rows findMany returned: 404 (some
\* products not found), 400 (pre-check), 0 to go on.
createOrderPrecheck_noStockCheck(items) ==
    IF someProductsNotFound(items) THEN 404
    ELSE 0

createOrderPrecheck(items) ==
    IF someProductsNotFound(items) THEN 404
    ELSE IF insufficientStock(items, stock) THEN 400
    ELSE 0

\* Lines 636-646: prisma.user.findUnique, 404 when the user has no row.
CoUser(r, u, items) ==
    /\ free(r)
    /\ Len(orders) + pendingCreates < MaxOrders
    /\ BagCardinality(movements) + pendingMovements + Len(items) <= MaxMovements
    /\ ~userLockedByOther(r, u)
    /\ reqs' = [reqs EXCEPT ![r] =
          IF ~userExists(u) THEN answered("createOrder", 404)
          ELSE [IdleReq EXCEPT !.op = "createOrder", !.u = u, !.items = items,
                               !.pc = "products"]]
    /\ UNCHANGED <<dbVars, clock, fsmIn>>

\* Lines 649-687: prisma.product.findMany, the tests on the rows it returned
\* and the totals computed from their prices.
CoProducts(r) ==
    /\ reqs[r].op = "createOrder" /\ reqs[r].pc = "products"
    /\ \A p \in findManyProducts(reqs[r].items) : ~lockedByOther(r, p)
    /\ reqs' = [reqs EXCEPT ![r] =
          IF createOrderPrecheck(reqs[r].items) # 0
          THEN finish(r, createOrderPrecheck(reqs[r].items))
          ELSE [@ EXCEPT !.order = newOrderRow(reqs[r].u, reqs[r].items, 0),
                         !.pc = "count"]]
    /\ UNCHANGED <<dbVars, clock, fsmIn>>

\* Lines 690-691: prisma.order.count(), before the transaction starts.
CoCount(r) ==
    /\ reqs[r].op = "createOrder" /\ reqs[r].pc = "count"
    /\ ~orderInsertedByOther(r)
    /\ reqs' = [reqs EXCEPT ![r] =
                  [@ EXCEPT !.orderNumber = Len(orders) + 1,
                            !.order.orderNumber = Len(orders) + 1,
                            !.pc = "recheck", !.i = 1]]
    /\ UNCHANGED <<dbVars, clock, fsmIn>>

\* Lines 696-702: one round of the re-check loop inside the transaction.
CoRecheck(r) ==
    /\ reqs[r].op = "createOrder" /\ reqs[r].pc = "recheck"
    /\ ~lockedByOther(r, reqs[r].items[reqs[r].i].productId)
    /\ LET q  == reqs[r]
           it == q.items[q.i]
       IN  reqs' = [reqs EXCEPT ![r] =
              IF ~productExists(it.productId)
              THEN [finish(r, 404) EXCEPT !.failedAt = "recheck"]
              ELSE IF insufficientStock(<<it>>, stock)
              THEN [finish(r, 400) EXCEPT !.failedAt = "recheck"]
              ELSE [q EXCEPT !.seen = Append(@, stock[it.productId]),
                             !.i = IF q.i = Len(q.items) THEN 1 ELSE q.i + 1,
                             !.pc = IF q.i = Len(q.items) THEN "insert" ELSE "recheck"]]
    /\ UNCHANGED <<dbVars, clock, fsmIn>>

\* Lines 705-737: tx.order.create; the row is visible at the commit.
CoInsert(r) ==
    /\ reqs[r].op = "createOrder" /\ reqs[r].pc = "insert"
    /\ reqs' = [reqs EXCEPT ![r] = [@ EXCEPT !.pc = "deductRead", !.i = 1]]
    /\ UNCHANGED <<dbVars, clock, fsmIn>>

afterItem(q) ==
    IF q.i = Len(q.items)
    THEN [q EXCEPT !.pc = "user"]
    ELSE [q EXCEPT !.pc = "deductRead", !.i = q.i + 1]

\* Lines 741-747: tx.product.findUnique of the deduction loop, the test
\* product?.trackInventory and the guard on the stock the read returns.
CoDeductRead(r) ==
    /\ reqs[r].op = "createOrder" /\ reqs[r].pc = "deductRead"
    /\ ~lockedByOther(r, reqs[r].items[reqs[r].i].productId)
    /\ LET q  == reqs[r]
           it == q.items[q.i]
           p  == it.productId
       IN  reqs' = [reqs EXCEPT ![r] =
              IF ~productExists(p) \/ ~trackInventory[p] THEN afterItem(q)
              ELSE IF deductItem(productTables, it, 0, stock[p], pstatus[p]).err # 0
              THEN [finish(r, 400) EXCEPT !.failedAt = "deductRead"]
              ELSE [q EXCEPT !.readStock = stock[p], !.readStatus = pstatus[p],
                             !.pc = "deductUpdate"]]
    /\ UNCHANGED <<dbVars, clock, fsmIn>>

\* Lines 749-756: tx.product.update.  The update of a row that is gone
\* rejects (P2025, answered 404); the row updated stays locked until the
\* transaction ends.
CoDeductUpdate(r) ==
    /\ reqs[r].op = "createOrder" /\ reqs[r].pc = "deductUpdate"
    /\ LET q == reqs[r]
       IN  /\ ~lockedByOther(r, q.items[q.i].productId)
           /\ reqs' = [reqs EXCEPT ![r] =
                 IF ~productExists(q.items[q.i].productId)
                 THEN [finish(r, 404) EXCEPT !.failedAt = "deductUpdate"]
                 ELSE [q EXCEPT !.pc = "deductMovement",
                                !.writes = Append(@,
                                   [i |-> q.i, readStock |-> q.readStock,
                                    readStatus |-> q.readStatus,
                                    movement |-> FALSE])]]
    /\ UNCHANGED <<dbVars, clock, fsmIn>>

\* Lines 758-767: tx.inventoryMovement.create of the item just updated.
CoDeductMovement(r) ==
    /\ reqs[r].op = "createOrder" /\ reqs[r].pc = "deductMovement"
    /\ reqs' = [reqs EXCEPT ![r] =
                  afterItem([@ EXCEPT !.writes[Len(@.writes)].movement = TRUE])]
    /\ UNCHANGED <<dbVars, clock, fsmIn>>

\* Lines 772-778: tx.user.update, which rejects (P2025) when the row is gone.
CoUserUpdate(r) ==
    /\ reqs[r].op = "createOrder" /\ reqs[r].pc = "user"
    /\ ~userLockedByOther(r, reqs[r].u)
    /\ reqs' = [reqs EXCEPT ![r] =
                  IF ~userExists(reqs[r].u)
                  THEN [finish(r, 404) EXCEPT !.failedAt = "user"]
                  ELSE [@ EXCEPT !.pc = "commit"]]
    /\ UNCHANGED <<dbVars, clock, fsmIn>>

\* The product and movement tables after the statements of the transaction:
\* each update applied to the committed row with the status computed from its
\* read, and the movement of each item whose movement was created.
RECURSIVE applyWrites(_, _, _, _, _)
applyWrites(d, items, writes, k, oid) ==
    IF k > Len(writes) THEN d
    ELSE LET w == deductItem([d EXCEPT !.err = 0], items[writes[k].i], oid,
                             writes[k].readStock, writes[k].readStatus)
         IN  applyWrites(
                IF writes[k].movement THEN w
                ELSE [w EXCEPT !.movements = d.movements],
                items, writes, k + 1, oid)

\* Line 780-781: the callback returns and the transaction commits.
CoCommit(r) ==
    /\ reqs[r].op = "createOrder" /\ reqs[r].pc = "commit"
    /\ LET q   == reqs[r]
           row == q.order
           oid == Len(orders) + 1
           d   == applyWrites(productTables, q.items, q.writes, 1, oid)
       IN  /\ orders' = Append(orders, row)
           /\ stock' = d.stock
           /\ salesCount' = d.salesCount
           /\ pstatus' = d.pstatus
           /\ movements' = d.movements
           /\ users' = [users EXCEPT ![q.u] = userAfterOrder(@, row.total)]
           /\ reqs' = [reqs EXCEPT ![r] =
                         [answered("createOrder", 201) EXCEPT
                             !.oid = oid, !.seen = q.seen]]
    /\ UNCHANGED <<catalog, price, accounts, payments, clock, fsmIn>>

\* The statements awaited inside the transaction.
InTransaction ==
    {"recheck", "insert", "deductRead", "deductUpdate", "deductMovement",
     "user", "commit"}

CoAbort_keepsOrder(r) ==
    /\ reqs[r].op = "createOrder"
    /\ reqs[r].pc \in {"products", "count"} \cup InTransaction
    /\ reqs' = [reqs EXCEPT ![r] = failed(r)]
    /\ IF reqs[r].pc \in {"products", "count", "recheck", "insert"}
       THEN UNCHANGED orders
       ELSE orders' = Append(orders, reqs[r].order)
    /\ UNCHANGED <<catalog, price, stock, salesCount, pstatus, movements,
                   accounts, users, payments, clock, fsmIn>>

\* Lines 788-790: an awaited statement rejects (connection lost, timeout of
\* the interactive transaction, deadlock victim) and the error handler
\* answers 500: product.findMany or order.count before the transaction, or a
\* statement of the transaction, in which case the callback throws and the
\* transaction is rolled back.
CoAbort(r) ==
    /\ reqs[r].op = "createOrder"
    /\ reqs[r].pc \in {"products", "count"} \cup InTransaction
    /\ reqs' = [reqs EXCEPT ![r] = failed(r)]
    /\ UNCHANGED <<dbVars, clock, fsmIn>>

-----------------------------------------------------------------------------
(* updateStock: src/src/controllers/inventory.controller.ts 77-129          *)

StockOperations == {"increase", "decrease", "set"}

\* The optional type of the request; "none" stands for its absence.
StockTypes == {"none", "RESTOCK"}

\* The types the explorations draw.
SeqStockTypes == {"none"}

max0(n) == IF n > 0 THEN n ELSE 0

stockDelta(op, quantity, cur) ==
    CASE op = "set"      -> quantity - cur
      [] op = "increase" -> quantity
      [] OTHER           -> -quantity

newStockOf_noFloor(op, quantity, cur) ==
    CASE op = "set"      -> quantity
      [] op = "increase" -> cur + quantity
      [] OTHER           -> cur - quantity

newStockOf(op, quantity, cur) ==
    CASE op = "set"      -> quantity
      [] op = "increase" -> cur + quantity
      [] OTHER           -> max0(cur - quantity)

\* Lines 82-100: the read of the product and the new stock.
UsRead(r, p, op, quantity, type) ==
    /\ free(r)
    /\ BagCardinality(movements) + pendingMovements < MaxMovements
    /\ p \in ProductIds => ~lockedByOther(r, p)
    /\ reqs' = [reqs EXCEPT ![r] =
          IF ~productExists(p) THEN answered("updateStock", 404)
          ELSE IF ~trackInventory[p] THEN answered("updateStock", 400)
          ELSE [IdleReq EXCEPT !.op = "updateStock", !.productId = p,
                               !.operation = op, !.quantity = quantity,
                               !.type = type,
                               !.readStock = stock[p], !.readStatus = pstatus[p],
                               !.pc = "batch"]]
    /\ UNCHANGED <<dbVars, clock, fsmIn>>

\* Lines 102-119: the batch transaction of the movement and the absolute
\* write of the stock computed from the earlier read.  The update of a row
\* that is gone rejects (P2025, answered 404) and the batch is rolled back.
UsBatch(r) ==
    /\ reqs[r].op = "updateStock" /\ reqs[r].pc = "batch"
    /\ LET q            == reqs[r]
           p            == q.productId
           newStock     == newStockOf(q.operation, q.quantity, q.readStock)
           delta        == stockDelta(q.operation, q.quantity, q.readStock)
           movementType == IF q.type = "none" THEN "ADJUSTMENT" ELSE q.type
       IN  /\ ~lockedByOther(r, p)
           /\ IF ~productExists(p)
              THEN /\ reqs' = [reqs EXCEPT ![r] =
                                 [finish(r, 404) EXCEPT !.failedAt = "batch"]]
                   /\ UNCHANGED <<stock, pstatus, movements>>
              ELSE /\ newStock <= MaxStock
                   /\ movements' = addMovement(movements,
                                       movementRow(p, delta, movementType, 0))
                   /\ stock' = [stock EXCEPT ![p] = newStock]
                   /\ pstatus' = [pstatus EXCEPT ![p] =
                                     IF newStock <= 0 THEN "OUT_OF_STOCK"
                                     ELSE q.readStatus]
                   /\ reqs' = [reqs EXCEPT ![r] = [@ EXCEPT !.pc = "reread"]]
    /\ UNCHANGED <<catalog, price, salesCount, orders, accounts, users,
                   payments, clock, fsmIn>>

\* Lines 121-125: the trailing prisma.product.findUnique and the answer,
\* whose data is the row as it is now (its stock), or null (-1) when the row
\* is gone.
UsReread(r) ==
    /\ reqs[r].op = "updateStock" /\ reqs[r].pc = "reread"
    /\ reqs[r].productId \in ProductIds => ~lockedByOther(r, reqs[r].productId)
    /\ reqs' = [reqs EXCEPT ![r] =
                  [finish(r, 200) EXCEPT
                      !.productId = reqs[r].productId,
                      !.updated = IF productExists(reqs[r].productId)
                                  THEN stock[reqs[r].productId] ELSE -1]]
    /\ UNCHANGED <<dbVars, clock, fsmIn>>

\* Lines 126-128: the batch rejects and nothing of it is written, or the
\* trailing read rejects when the batch is written; the answer is 500.
UsFail(r) ==
    /\ reqs[r].op = "updateStock" /\ reqs[r].pc \in {"batch", "reread"}
    /\ reqs' = [reqs EXCEPT ![r] = failed(r)]
    /\ UNCHANGED <<dbVars, clock, fsmIn>>

-----------------------------------------------------------------------------
(* cancelOrder: src/src/controllers/order.controller.ts 854-921             *)

\* The product updates of the items in S, each an increment of the stock and
\* a decrement of the sales counter of its row.
restoreStock(d, its, S) ==
    [d EXCEPT
        !.stock = [p \in ProductIds |->
            IF \E k \in S : its[k].productId = p
            THEN d.stock[p] + its[CHOOSE k \in S : its[k].productId = p].quantity
            ELSE d.stock[p]],
        !.salesCount = [p \in ProductIds |->
            IF \E k \in S : its[k].productId = p
            THEN d.salesCount[p] - its[CHOOSE k \in S : its[k].productId = p].quantity
            ELSE d.salesCount[p]]]

\* The RETURN movements of the items in S.
RECURSIVE returnMovements(_, _, _, _)
returnMovements(ms, its, S, oid) ==
    IF S = {} THEN ms
    ELSE LET k == CHOOSE k \in S : TRUE
         IN  returnMovements(
                addMovement(ms, movementRow(its[k].productId, its[k].quantity,
                                            "RETURN", oid)),
                its, S \ {k}, oid)

cancellable_alsoProcessing(o) ==
    o.orderStatus \in {"PENDING", "CONFIRMED", "PROCESSING"}

cancellable(o) == o.orderStatus \in {"PENDING", "CONFIRMED"}

\* Lines 858-888: the read of the order and the tests on it; the handler
\* then issues the product update of every item at once.
CaRead(r, u, oid) ==
    /\ free(r)
    /\ reqs' = [reqs EXCEPT ![r] =
          IF oid \notin DOMAIN orders THEN answered("cancelOrder", 404)
          ELSE IF role[u] = "CUSTOMER" /\ orders[oid].userId # u
          THEN answered("cancelOrder", 403)
          ELSE IF ~cancellable(orders[oid])
          THEN [answered("cancelOrder", 400) EXCEPT !.oid = oid]
          ELSE [IdleReq EXCEPT !.op = "cancelOrder", !.u = u, !.oid = oid,
                               !.items = orders[oid].items,
                               !.todo = DOMAIN orders[oid].items,
                               !.pc = "restore"]]
    /\ oid \in DOMAIN orders =>
          BagCardinality(movements) + pendingMovements + Len(orders[oid].items)
              <= MaxMovements
    /\ UNCHANGED <<dbVars, clock, fsmIn>>

\* The items of an order whose product row exists.
liveItems(its) == {k \in DOMAIN its : productExists(its[k].productId)}

\* Lines 878-888: the product update of item k, one statement of the first
\* Promise.all; the statements are applied one by one, in any order.  When
\* the last one has answered the handler issues the movements.  The update
\* of a row that is gone rejects (P2025): Promise.all rejects at once and the
\* handler answers 404, the statements not applied yet still being under way.
CaRestore(r, k) ==
    /\ reqs[r].op = "cancelOrder" /\ reqs[r].pc = "restore"
    /\ k \in reqs[r].todo
    /\ LET q == reqs[r]
           d == restoreStock(productTables, q.items, {k})
       IN  /\ ~lockedByOther(r, q.items[k].productId)
           /\ IF k \notin liveItems(q.items)
              THEN /\ reqs' = [reqs EXCEPT ![r] =
                                 [finish(r, 404) EXCEPT
                                     !.failedAt = "restore",
                                     !.todo = q.todo \ {k},
                                     !.items = IF q.todo = {k} THEN <<>>
                                               ELSE q.items]]
                   /\ UNCHANGED <<stock, salesCount>>
              ELSE /\ \A p \in ProductIds : d.stock[p] <= MaxStock
                   /\ stock' = d.stock
                   /\ salesCount' = d.salesCount
                   /\ reqs' = [reqs EXCEPT ![r] =
                                 IF q.todo = {k}
                                 THEN [q EXCEPT !.pc = "movements",
                                                !.todo = DOMAIN q.items]
                                 ELSE [q EXCEPT !.todo = q.todo \ {k}]]
    /\ UNCHANGED <<catalog, price, pstatus, orders, movements, accounts, users,
                   payments, clock, fsmIn>>

\* Lines 889-909: the RETURN movement of item k, one statement of the second
\* Promise.all.  When the last one has answered the handler evaluates
\* new Date() and issues the status update.
CaMovement(r, k) ==
    /\ reqs[r].op = "cancelOrder" /\ reqs[r].pc = "movements"
    /\ k \in reqs[r].todo
    /\ reqs[r].todo = {k} => clock < MaxClock
    /\ movements' = returnMovements(movements, reqs[r].items, {k}, reqs[r].oid)
    /\ clock' = IF reqs[r].todo = {k} THEN clock + 1 ELSE clock
    /\ reqs' = [reqs EXCEPT ![r] =
                  IF reqs[r].todo = {k}
                  THEN [@ EXCEPT !.pc = "status", !.todo = {}, !.now = clock + 1]
                  ELSE [@ EXCEPT !.todo = @ \ {k}]]
    /\ UNCHANGED <<catalog, price, stock, salesCount, pstatus, orders, accounts,
                   users, payments, fsmIn>>

\* Lines 905-917: the status update and the answer.
CaStatus(r) ==
    /\ reqs[r].op = "cancelOrder" /\ reqs[r].pc = "status"
    /\ orders' = [orders EXCEPT ![reqs[r].oid].orderStatus = "CANCELLED",
                                ![reqs[r].oid].cancelledAt = reqs[r].now]
    /\ reqs' = [reqs EXCEPT ![r] = finish(r, 200)]
    /\ UNCHANGED <<catalog, price, stock, salesCount, pstatus, movements,
                   accounts, users, payments, clock, fsmIn>>

\* A statement the handler issued and no longer waits for, because another
\* statement of the same Promise.all has rejected and the request is
\* answered: the database still runs it.  It is applied (applied = TRUE) or
\* rejects in its turn and writes nothing; nobody reads its result.  Only a
\* product update that is applied waits for the row it writes.  The
\* connection takes its next request when its statements have ended.
CaLate(r, k, applied) ==
    /\ reqs[r].op = "cancelOrder" /\ reqs[r].pc = "done"
    /\ k \in reqs[r].todo
    /\ LET q == reqs[r]
           d == restoreStock(productTables, q.items,
                             IF applied /\ q.failedAt = "restore"
                             THEN {k} \cap liveItems(q.items) ELSE {})
       IN  /\ (applied /\ q.failedAt = "restore" /\ k \in liveItems(q.items))
                 => ~lockedByOther(r, q.items[k].productId)
           /\ \A p \in ProductIds : d.stock[p] <= MaxStock
           /\ stock' = d.stock
           /\ salesCount' = d.salesCount
           /\ movements' = IF applied /\ q.failedAt = "movements"
                           THEN returnMovements(movements, q.items, {k}, q.oid)
                           ELSE movements
           /\ reqs' = [reqs EXCEPT ![r] =
                         [q EXCEPT !.todo = q.todo \ {k},
                                   !.items = IF q.todo = {k} THEN <<>> ELSE q.items]]
    /\ UNCHANGED <<catalog, price, pstatus, orders, accounts, users, payments,
                   clock, fsmIn>>

CaFail_rollsBack(r, k) ==
    /\ reqs[r].op = "cancelOrder"
    /\ reqs[r].pc \in {"restore", "movements", "status"}
    /\ IF reqs[r].pc = "status" THEN k = 0 ELSE k \in reqs[r].todo
    /\ reqs' = [reqs EXCEPT ![r] = failed(r)]
    /\ IF reqs[r].pc = "restore"
       THEN UNCHANGED <<stock, salesCount>>
       ELSE LET its == reqs[r].items
            IN  /\ stock' = [p \in ProductIds |->
                                IF \E j \in DOMAIN its : its[j].productId = p
                                THEN stock[p] - 1 ELSE stock[p]]
                /\ UNCHANGED salesCount
    /\ UNCHANGED <<catalog, price, pstatus, orders, movements, accounts, users,
                   payments, clock, fsmIn>>

\* Lines 918-920: a statement of the handler rejects (the database is
\* unreachable, a deadlock) and the catch block answers the error: statement
\* k of the Promise.all awaited, or the status update (k = 0).  The handler
\* opens no transaction, so what the earlier statements wrote stays, and the
\* other statements of the same Promise.all are still applied.
CaFail(r, k) ==
    /\ reqs[r].op = "cancelOrder"
    /\ reqs[r].pc \in {"restore", "movements", "status"}
    /\ IF reqs[r].pc = "status" THEN k = 0 ELSE k \in reqs[r].todo
    /\ reqs' = [reqs EXCEPT ![r] =
                  [failed(r) EXCEPT
                      !.todo = reqs[r].todo \ {k},
                      !.items = IF reqs[r].todo \ {k} = {} THEN <<>>
                                ELSE reqs[r].items]]
    /\ UNCHANGED <<dbVars, clock, fsmIn>>

-----------------------------------------------------------------------------
(* updateOrderStatus: src/src/controllers/order.controller.ts 793-852       *)

productVars == <<catalog, price, stock, salesCount, pstatus>>

userVars == <<accounts, users>>

\* The error of the two validations, 0 when both pass or are skipped.
updateStatusError(o, orderStatus, paymentStatus) ==
    IF orderStatus # None /\ orderStatus # o.orderStatus
          /\ validateOrderStatusTransition(o.orderStatus, orderStatus) # 0
    THEN 400
    ELSE IF paymentStatus # None /\ paymentStatus # o.paymentStatus
          /\ validatePaymentStatusTransition(o.paymentStatus, paymentStatus) # 0
    THEN 400
    ELSE 0

updatedOrder_derivedWins(o, orderStatus, paymentStatus, now) ==
    [o EXCEPT
        !.orderStatus   = IF paymentStatus # None
                          THEN getOrderStatusFromPayment(paymentStatus)
                          ELSE IF orderStatus # None THEN orderStatus
                          ELSE @,
        !.paymentStatus = IF paymentStatus # None THEN paymentStatus ELSE @,
        !.shippedAt     = IF orderStatus = "SHIPPED" THEN now ELSE @,
        !.deliveredAt   = IF orderStatus = "DELIVERED" THEN now ELSE @,
        !.cancelledAt   = IF orderStatus = "CANCELLED" THEN now ELSE @,
        !.paidAt        = IF paymentStatus = "PAID" THEN now ELSE @]

\* The row after prisma.order.update({ data: updateData }): updateData is the
\* parsed body, which has no timestamp field, plus the derived order status
\* and the timestamps set at `now`.
updatedOrder(o, orderStatus, paymentStatus, now) ==
    [o EXCEPT
        !.orderStatus   = IF orderStatus # None THEN orderStatus
                          ELSE IF paymentStatus # None
                          THEN getOrderStatusFromPayment(paymentStatus)
                          ELSE @,
        !.paymentStatus = IF paymentStatus # None THEN paymentStatus ELSE @,
        !.shippedAt     = IF orderStatus = "SHIPPED" THEN now ELSE @,
        !.deliveredAt   = IF orderStatus = "DELIVERED" THEN now ELSE @,
        !.cancelledAt   = IF orderStatus = "CANCELLED" THEN now ELSE @,
        !.paidAt        = IF paymentStatus = "PAID" THEN now ELSE @]

\* Whether the handler evaluates new Date().
readsClock(orderStatus, paymentStatus) ==
    orderStatus \in {"SHIPPED", "DELIVERED", "CANCELLED"} \/ paymentStatus = "PAID"

\* Lines 799-834: the read of the order, the validations against the row
\* read, and updateData with the timestamps of the moment.
UosRead(r, oid, orderStatus, paymentStatus) ==
    /\ free(r)
    /\ IF oid \notin DOMAIN orders
       THEN /\ reqs' = [reqs EXCEPT ![r] = answered("updateOrderStatus", 404)]
            /\ UNCHANGED clock
       ELSE IF updateStatusError(orders[oid], orderStatus, paymentStatus) # 0
       THEN /\ reqs' = [reqs EXCEPT ![r] =
                          [answered("updateOrderStatus", 400) EXCEPT !.oid = oid]]
            /\ UNCHANGED clock
       ELSE /\ readsClock(orderStatus, paymentStatus) => clock < MaxClock
            /\ clock' = IF readsClock(orderStatus, paymentStatus)
                        THEN clock + 1 ELSE clock
            /\ reqs' = [reqs EXCEPT ![r] =
                  [IdleReq EXCEPT !.op = "updateOrderStatus", !.oid = oid,
                                  !.orderStatus = orderStatus,
                                  !.paymentStatus = paymentStatus,
                                  !.now = IF readsClock(orderStatus, paymentStatus)
                                          THEN clock + 1 ELSE 0,
                                  !.pc = "update"]]
    /\ UNCHANGED <<dbVars, fsmIn>>

\* Lines 836-848: prisma.order.update writes updateData to the row as it is
\* now, and the answer.
UosUpdate(r) ==
    /\ reqs[r].op = "updateOrderStatus" /\ reqs[r].pc = "update"
    /\ orders' = [orders EXCEPT ![reqs[r].oid] =
                     updatedOrder(@, reqs[r].orderStatus, reqs[r].paymentStatus,
                                  reqs[r].now)]
    /\ reqs' = [reqs EXCEPT ![r] = finish(r, 200)]
    /\ UNCHANGED <<productVars, movements, userVars, payments, clock, fsmIn>>

\* Lines 849-851: the update rejects.
UosFail(r) ==
    /\ reqs[r].op = "updateOrderStatus" /\ reqs[r].pc = "update"
    /\ reqs' = [reqs EXCEPT ![r] = failed(r)]
    /\ UNCHANGED <<dbVars, clock, fsmIn>>

-----------------------------------------------------------------------------
(* Payments: src/src/controllers/payment.controller.ts                      *)

MaxPayments == 2

noProviderNeeded(method) == method \in {"CASH_ON_DELIVERY", "BANK_TRANSFER"}

paymentRow(oid, method, status, transactionId, processedAt) ==
    [orderId |-> oid, method |-> method, status |-> status,
     transactionId |-> transactionId, processedAt |-> processedAt]

paidOrder_noPaidAt(o, now) ==
    [o EXCEPT !.paymentStatus = "PAID", !.orderStatus = "CONFIRMED"]

paidOrder_zeroesTotal(o, now) ==
    [o EXCEPT !.paymentStatus = "PAID", !.orderStatus = "CONFIRMED",
              !.paidAt = now, !.total = fromInt(0)]

\* The order row after a payment succeeded.
paidOrder(o, now) ==
    [o EXCEPT !.paymentStatus = "PAID", !.orderStatus = "CONFIRMED", !.paidAt = now]

\* The error thrown before any write, 0 when there is none.
paymentError(u, oid, method) ==
    IF oid \notin DOMAIN orders THEN 404
    ELSE IF orders[oid].userId # u THEN 403
    ELSE IF orders[oid].paymentStatus = "PAID" THEN 400
    ELSE IF ~noProviderNeeded(method) /\ getPaymentProvider(method) = None THEN 400
    ELSE 0

\* Payment rows the running requests may still insert.
pendingPayments ==
    Cardinality({r \in Procs :
        /\ reqs[r].op \in {"processPayment", "initiatePayment"}
        /\ reqs[r].pc \in {"initiate", "verify", "create"}})

\* The request of a payment handler that has read its order, standing at pc.
paymentRequest(op, u, oid, method, pc) ==
    [IdleReq EXCEPT !.op = op, !.u = u, !.oid = oid, !.method = method, !.pc = pc]

\* A transactionId no row has yet, the text of a provider or of a new
\* millisecond, told from the others by the position of the row; 0 is null.
transactionIdOf(q) == IF q.hasTx THEN Len(payments) + 1 ELSE 0

\* The transactionIds the row of request q can get.  A provider gives an id
\* of its own.  Without a provider the id is the text COD-<Date.now()>,
\* which is the id of an earlier row made without a provider when both
\* requests evaluated Date.now() in the same millisecond.
transactionIds(q) ==
    {transactionIdOf(q)}
        \cup (IF noProviderNeeded(q.method)
              THEN {payments[k].transactionId : k \in
                      {j \in DOMAIN payments : noProviderNeeded(payments[j].method)}}
              ELSE {})

\* processPayment, lines 55-84: the read of the order and the tests on it.
\* Without a provider the payment has succeeded and the handler evaluates
\* Date.now() and new Date() for the row it inserts next.
PpRead(r, u, oid, method) ==
    /\ free(r)
    /\ Len(payments) + pendingPayments < MaxPayments
    /\ IF paymentError(u, oid, method) # 0
       THEN /\ reqs' = [reqs EXCEPT ![r] =
                          answered("processPayment", paymentError(u, oid, method))]
            /\ UNCHANGED clock
       ELSE IF noProviderNeeded(method)
       THEN /\ clock + 2 <= MaxClock
            /\ clock' = clock + 1
            /\ reqs' = [reqs EXCEPT ![r] =
                  [paymentRequest("processPayment", u, oid, method, "create")
                      EXCEPT !.success = TRUE, !.hasTx = TRUE, !.now = clock + 1]]
       ELSE /\ clock + 2 <= MaxClock
            /\ reqs' = [reqs EXCEPT ![r] =
                  paymentRequest("processPayment", u, oid, method, "initiate")]
            /\ UNCHANGED clock
    /\ UNCHANGED <<dbVars, fsmIn>>

\* Lines 73-80: provider.initiate; initiated is whether its status is not
\* FAILED.
PpInitiate(r, initiated) ==
    /\ reqs[r].op = "processPayment" /\ reqs[r].pc = "initiate"
    /\ reqs' = [reqs EXCEPT ![r] =
                  IF initiated THEN [@ EXCEPT !.hasTx = TRUE, !.pc = "verify"]
                  ELSE [@ EXCEPT !.success = FALSE, !.pc = "create"]]
    /\ UNCHANGED <<dbVars, clock, fsmIn>>

\* Lines 81-94: provider.verify; verified is the success it answers.
PpVerify(r, verified) ==
    /\ reqs[r].op = "processPayment" /\ reqs[r].pc = "verify"
    /\ verified => clock < MaxClock
    /\ clock' = IF verified THEN clock + 1 ELSE clock
    /\ reqs' = [reqs EXCEPT ![r] =
                  [@ EXCEPT !.success = verified, !.pc = "create",
                            !.now = IF verified THEN clock + 1 ELSE 0]]
    /\ UNCHANGED <<dbVars, fsmIn>>

\* Lines 86-109: prisma.payment.create; after a failed payment the answer,
\* after a successful one new Date() for the update of the order.
PpCreate(r) ==
    /\ reqs[r].op = "processPayment" /\ reqs[r].pc = "create"
    /\ LET q == reqs[r]
       IN  /\ q.success => clock < MaxClock
           /\ clock' = IF q.success THEN clock + 1 ELSE clock
           /\ \E tx \in transactionIds(q) :
                 payments' = Append(payments,
                    paymentRow(q.oid, q.method,
                               IF q.success THEN "PAID" ELSE "FAILED",
                               tx, q.now))
           /\ reqs' = [reqs EXCEPT ![r] =
                         IF q.success
                         THEN [q EXCEPT !.pc = "order", !.now = clock + 1,
                                        !.pay = Len(payments) + 1]
                         ELSE finish(r, 200)]
    /\ UNCHANGED <<productVars, orders, movements, userVars, fsmIn>>

\* Lines 99-109: prisma.order.update and the answer.
PpOrder(r) ==
    /\ reqs[r].op = "processPayment" /\ reqs[r].pc = "order"
    /\ orders' = [orders EXCEPT ![reqs[r].oid] = paidOrder(@, reqs[r].now)]
    /\ reqs' = [reqs EXCEPT ![r] = finish(r, 200)]
    /\ UNCHANGED <<productVars, movements, userVars, payments, clock, fsmIn>>

\* Lines 110-112: the provider or a statement rejects; the Payment row
\* already inserted stays.
PpFail(r) ==
    /\ reqs[r].op = "processPayment"
    /\ reqs[r].pc \in {"initiate", "verify", "create", "order"}
    /\ reqs' = [reqs EXCEPT ![r] = failed(r)]
    /\ UNCHANGED <<dbVars, clock, fsmIn>>

\* initiatePayment, lines 117-147: the read of the order and the tests.
IpRead(r, u, oid, method) ==
    /\ free(r)
    /\ Len(payments) + pendingPayments < MaxPayments
    /\ IF paymentError(u, oid, method) # 0
       THEN /\ reqs' = [reqs EXCEPT ![r] =
                          answered("initiatePayment", paymentError(u, oid, method))]
            /\ UNCHANGED clock
       ELSE IF noProviderNeeded(method)
       THEN /\ clock + 2 <= MaxClock
            /\ clock' = clock + 1
            /\ reqs' = [reqs EXCEPT ![r] =
                  [paymentRequest("initiatePayment", u, oid, method, "create")
                      EXCEPT !.success = TRUE, !.hasTx = TRUE, !.now = clock + 1]]
       ELSE /\ reqs' = [reqs EXCEPT ![r] =
                  paymentRequest("initiatePayment", u, oid, method, "initiate")]
            /\ UNCHANGED clock
    /\ UNCHANGED <<dbVars, fsmIn>>

\* Lines 149-154: provider.initiate; the row inserted next is PENDING
\* whatever status it answers.
IpInitiate(r) ==
    /\ reqs[r].op = "initiatePayment" /\ reqs[r].pc = "initiate"
    /\ reqs' = [reqs EXCEPT ![r] = [@ EXCEPT !.hasTx = TRUE, !.pc = "create"]]
    /\ UNCHANGED <<dbVars, clock, fsmIn>>

\* Lines 126-135 and 156-175: prisma.payment.create, of a PAID row without a
\* provider and of a PENDING row with one, which is then answered.
IpCreate(r) ==
    /\ reqs[r].op = "initiatePayment" /\ reqs[r].pc = "create"
    /\ LET q == reqs[r]
       IN  /\ q.success => clock < MaxClock
           /\ clock' = IF q.success THEN clock + 1 ELSE clock
           /\ \E tx \in transactionIds(q) :
                 payments' = Append(payments,
                    paymentRow(q.oid, q.method,
                               IF q.success THEN "PAID" ELSE "PENDING",
                               tx, q.now))
           /\ reqs' = [reqs EXCEPT ![r] =
                         IF q.success
                         THEN [q EXCEPT !.pc = "order", !.now = clock + 1,
                                        !.pay = Len(payments) + 1]
                         ELSE finish(r, 200)]
    /\ UNCHANGED <<productVars, orders, movements, userVars, fsmIn>>

\* Lines 136-143: prisma.order.update and the answer.
IpOrder(r) ==
    /\ reqs[r].op = "initiatePayment" /\ reqs[r].pc = "order"
    /\ orders' = [orders EXCEPT ![reqs[r].oid] = paidOrder(@, reqs[r].now)]
    /\ reqs' = [reqs EXCEPT ![r] = finish(r, 200)]
    /\ UNCHANGED <<productVars, movements, userVars, payments, clock, fsmIn>>

\* Lines 176-178: the provider or a statement rejects.
IpFail(r) ==
    /\ reqs[r].op = "initiatePayment"
    /\ reqs[r].pc \in {"initiate", "create", "order"}
    /\ reqs' = [reqs EXCEPT ![r] = failed(r)]
    /\ UNCHANGED <<dbVars, clock, fsmIn>>

\* prisma.payment.findFirst({ where: { transactionId } }): 0 when no row.
findPaymentByTx(txId) ==
    IF \E k \in DOMAIN payments : payments[k].transactionId = txId
    THEN CHOOSE k \in DOMAIN payments :
            /\ payments[k].transactionId = txId
            /\ \A j \in DOMAIN payments : payments[j].transactionId = txId => k <= j
    ELSE 0

WhFind_reprocessesPaid(r, txId) ==
    /\ free(r)
    /\ LET k == findPaymentByTx(txId)
       IN  reqs' = [reqs EXCEPT ![r] =
              IF k = 0
              THEN answered("paymentWebhook", 200)
              ELSE [IdleReq EXCEPT !.op = "paymentWebhook", !.pay = k,
                                   !.oid = payments[k].orderId, !.pc = "verify"]]
    /\ UNCHANGED <<dbVars, clock, fsmIn>>

\* paymentWebhook for a known provider and a transaction id, lines 189-202:
\* prisma.payment.findFirst, answered at once when there is no row or the
\* row is PAID.
WhFind(r, txId) ==
    /\ free(r)
    /\ LET k == findPaymentByTx(txId)
       IN  reqs' = [reqs EXCEPT ![r] =
              IF k = 0 \/ payments[k].status = "PAID"
              THEN answered("paymentWebhook", 200)
              ELSE [IdleReq EXCEPT !.op = "paymentWebhook", !.pay = k,
                                   !.oid = payments[k].orderId, !.pc = "verify"]]
    /\ UNCHANGED <<dbVars, clock, fsmIn>>

\* Lines 204-209: prov.verify; when it fails the answer, when it succeeds
\* new Date() for the update of the payment.
WhVerify(r, verified) ==
    /\ reqs[r].op = "paymentWebhook" /\ reqs[r].pc = "verify"
    /\ verified => clock + 2 <= MaxClock
    /\ clock' = IF verified THEN clock + 1 ELSE clock
    /\ reqs' = [reqs EXCEPT ![r] =
                  IF verified
                  THEN [@ EXCEPT !.success = TRUE, !.pc = "payment",
                                 !.now = clock + 1]
                  ELSE finish(r, 200)]
    /\ UNCHANGED <<dbVars, fsmIn>>

\* Lines 207-213: prisma.payment.update of the row found, then new Date()
\* for the update of the order.
WhPayment(r) ==
    /\ reqs[r].op = "paymentWebhook" /\ reqs[r].pc = "payment"
    /\ clock < MaxClock
    /\ clock' = clock + 1
    /\ payments' = [payments EXCEPT ![reqs[r].pay].status = "PAID",
                                    ![reqs[r].pay].processedAt = reqs[r].now]
    /\ reqs' = [reqs EXCEPT ![r] = [@ EXCEPT !.pc = "order", !.now = clock + 1]]
    /\ UNCHANGED <<productVars, orders, movements, userVars, fsmIn>>

\* Lines 211-217: prisma.order.update of the order of the payment.
WhOrder(r) ==
    /\ reqs[r].op = "paymentWebhook" /\ reqs[r].pc = "order"
    /\ orders' = [orders EXCEPT ![reqs[r].oid] = paidOrder(@, reqs[r].now)]
    /\ reqs' = [reqs EXCEPT ![r] = finish(r, 200)]
    /\ UNCHANGED <<productVars, movements, userVars, payments, clock, fsmIn>>

\* Lines 218-220: the provider or a statement rejects; the Payment row
\* already updated stays PAID.
WhFail(r) ==
    /\ reqs[r].op = "paymentWebhook"
    /\ reqs[r].pc \in {"verify", "payment", "order"}
    /\ reqs' = [reqs EXCEPT ![r] = failed(r)]
    /\ UNCHANGED <<dbVars, clock, fsmIn>>

-----------------------------------------------------------------------------
(* Who may read and change an order: src/unnamed/part_010 (order routes),   *)
(* src/src/routes/user.routes.ts, src/src/middleware/auth.middleware.ts      *)

AuthCallers == Callers \cup Staff

\* prisma.order.findMany({where}) with where.userId absent (None) or set.
findManyOrders(userId) ==
    {oid \in DOMAIN orders : userId # None => orders[oid].userId = userId}

\* where.userId of getAllOrders for requester u and query parameter userId.
whereUserId(u, userId) == IF role[u] = "CUSTOMER" THEN u ELSE userId

\* getOrderById: one findUnique, then the tests on the row and the answer,
\* whose body is the order.
GetOrderById(r, u, oid) ==
    /\ free(r)
    /\ reqs' = [reqs EXCEPT ![r] =
          IF oid \notin DOMAIN orders
          THEN [answered("getOrderById", 404) EXCEPT !.u = u]
          ELSE IF role[u] = "CUSTOMER" /\ orders[oid].userId # u
          THEN [answered("getOrderById", 403) EXCEPT !.u = u]
          ELSE [answered("getOrderById", 200) EXCEPT !.u = u, !.data = {oid}]]
    /\ UNCHANGED <<dbVars, clock, fsmIn>>

\* The two statements of Promise.all([order.findMany, order.count]).
ReadStatements == {"findMany", "count"}

\* What request q has read when statement s is applied with filter
\* q.userId: the ids of the rows, or their number.
readApplied(q, s) ==
    IF s = "findMany"
    THEN [q EXCEPT !.data = findManyOrders(q.userId), !.stmts = @ \ {s}]
    ELSE [q EXCEPT !.total = Cardinality(findManyOrders(q.userId)),
                   !.stmts = @ \ {s}]

\* The request of a list handler that has issued both statements.
listRequest(op, u, where) ==
    [IdleReq EXCEPT !.op = op, !.u = u, !.userId = where, !.pc = "rest",
                    !.stmts = ReadStatements]

\* The statement still under way is applied and the handler answers the rows
\* and the total.
listRest(r) ==
    /\ reqs[r].pc = "rest"
    /\ \E s \in reqs[r].stmts :
          reqs' = [reqs EXCEPT ![r] =
                     [readApplied(reqs[r], s) EXCEPT !.pc = "done", !.code = 200]]
    /\ UNCHANGED <<dbVars, clock, fsmIn>>

\* getAllOrders: where.userId is the requester for a CUSTOMER and the query
\* parameter otherwise; `first` is the statement of the Promise.all the
\* database applies first.
GetAllOrders(r, u, userId, first) ==
    /\ free(r)
    /\ reqs' = [reqs EXCEPT ![r] =
          readApplied(listRequest("getAllOrders", u, whereUserId(u, userId)), first)]
    /\ UNCHANGED <<dbVars, clock, fsmIn>>

GetAllOrdersRest(r) == reqs[r].op = "getAllOrders" /\ listRest(r)

\* GET /users/:id/orders, behind authenticate only: where.userId is the id of
\* the path.
GetUserOrders(r, u, id, first) ==
    /\ free(r)
    /\ reqs' = [reqs EXCEPT ![r] =
          readApplied(listRequest("getUserOrders", u, id), first)]
    /\ UNCHANGED <<dbVars, clock, fsmIn>>

GetUserOrdersRest(r) == reqs[r].op = "getUserOrders" /\ listRest(r)

\* A statement of the Promise.all of a list handler rejects: the answer is
\* 500 without a body.
ReadFail(r) ==
    /\ reqs[r].op \in {"getAllOrders", "getUserOrders"} /\ reqs[r].pc = "rest"
    /\ reqs' = [reqs EXCEPT ![r] = [failed(r) EXCEPT !.u = reqs[r].u]]
    /\ UNCHANGED <<dbVars, clock, fsmIn>>

\* PATCH /orders/:id/status: authorize(ADMIN, MANAGER), then the handler.
PatchOrderStatus(r, u, oid, orderStatus, paymentStatus) ==
    IF authorize({"ADMIN", "MANAGER"}, u) # 0
    THEN /\ Reply(r, "updateOrderStatus", authorize({"ADMIN", "MANAGER"}, u))
         /\ UNCHANGED <<dbVars, clock, fsmIn>>
    ELSE UosRead(r, oid, orderStatus, paymentStatus)

-----------------------------------------------------------------------------
(* The system: the database has its schema and no row, and every request is *)
(* an async handler that runs next to the other requests.                   *)

Init ==
    /\ InitDb
    /\ fsmIn = NoFsmIn
    /\ reqs = [r \in Procs |-> IdleReq]

\* The bodies of updateProduct: a stock, a status, a price.
UpdateBodies ==
    <<[stock |-> MaxStock], [status |-> "ACTIVE"], [price |-> 19999]>>

\* The user ids a request can name in a filter or a path.
AuthUserIds == UserIds \cup {"u2"}

\* The steps of register, createOrder, updateStock and cancelOrder on
\* connection r that follow the first statement of the handler.
RegisterSteps(r) == RegHash(r) \/ RegCreate(r) \/ RegSession(r)

CreateOrderSteps(r) ==
    \/ CoProducts(r)
    \/ CoCount(r)
    \/ CoRecheck(r)
    \/ CoInsert(r)
    \/ CoDeductRead(r)
    \/ CoDeductUpdate(r)
    \/ CoDeductMovement(r)
    \/ CoUserUpdate(r)
    \/ CoCommit(r)

UpdateStockSteps(r) == UsBatch(r) \/ UsReread(r)

CancelOrderSteps(r) ==
    \/ \E k \in 1 .. MaxItems : CaRestore(r, k)
    \/ \E k \in 1 .. MaxItems : CaMovement(r, k)
    \/ CaStatus(r)
    \/ \E k \in 1 .. MaxItems, applied \in BOOLEAN : CaLate(r, k, applied)

PaymentSteps(r) ==
    \/ \E ok \in BOOLEAN : PpInitiate(r, ok)
    \/ \E ok \in BOOLEAN : PpVerify(r, ok)
    \/ PpCreate(r)
    \/ PpOrder(r)
    \/ IpInitiate(r)
    \/ IpCreate(r)
    \/ IpOrder(r)
    \/ \E ok \in BOOLEAN : WhVerify(r, ok)
    \/ WhPayment(r)
    \/ WhOrder(r)

PaymentFails(r) == PpFail(r) \/ IpFail(r) \/ WhFail(r)

Next ==
    \E r \in Procs :
        \/ \E op \in HandlerNames : RejectFirst(r, op)
        \/ \E u \in UserIds : RegFind(r, u)
        \/ RegisterSteps(r)
        \/ RegFail(r)
        \/ \E u \in Callers, id \in Callers : DeleteUser(r, u, id)
        \/ \E u \in Callers, id \in Callers : DeleteUserFail(r, u, id)
        \/ \E p \in ProductIds : CreateProduct(r, p, productTemplates[p])
        \/ \E p \in ProductIds \cup {MissingProduct}, k \in DOMAIN UpdateBodies :
              UpdateProduct(r, p, UpdateBodies[k])
        \/ UpdateProductWrite(r)
        \/ UpdateProductFail(r)
        \/ \E p \in ProductIds \cup {MissingProduct} : DeleteProduct(r, p)
        \/ \E oid \in 1 .. MaxOrders, os \in OrderStatus \cup {None},
              ps \in PaymentStatus \cup {None} : UosRead(r, oid, os, ps)
        \/ UosUpdate(r)
        \/ UosFail(r)
        \/ \E u \in Callers, oid \in 1 .. MaxOrders, m \in PaymentMethod :
              PpRead(r, u, oid, m) \/ IpRead(r, u, oid, m)
        \/ \E txId \in 1 .. MaxPayments : WhFind(r, txId)
        \/ PaymentSteps(r)
        \/ PaymentFails(r)
        \/ \E u \in AuthCallers, oid \in 1 .. MaxOrders : GetOrderById(r, u, oid)
        \/ \E u \in AuthCallers, userId \in AuthUserIds \cup {None},
              first \in ReadStatements : GetAllOrders(r, u, userId, first)
        \/ GetAllOrdersRest(r)
        \/ \E u \in AuthCallers, id \in AuthUserIds, first \in ReadStatements :
              GetUserOrders(r, u, id, first)
        \/ GetUserOrdersRest(r)
        \/ ReadFail(r)
        \/ \E u \in UserIds, items \in ItemLists : CoUser(r, u, items)
        \/ CreateOrderSteps(r)
        \/ CoAbort(r)
        \/ \E p \in ProductIds \cup {MissingProduct}, op \in StockOperations,
              q \in 0 .. MaxQty, t \in StockTypes : UsRead(r, p, op, q, t)
        \/ UpdateStockSteps(r)
        \/ UsFail(r)
        \/ \E u \in Callers, oid \in 1 .. MaxOrders : CaRead(r, u, oid)
        \/ CancelOrderSteps(r)
        \/ \E k \in 0 .. MaxItems : CaFail(r, k)

Spec == Init /\ [][Next]_vars

-----------------------------------------------------------------------------
(* The requests served one after the other, on one connection: register,   *)
(* deleteUser, createProduct, deleteProduct, createOrder, cancelOrder and   *)
(* updateStock.  One createOrder request gets past the pre-check.           *)

\* The products the createProduct requests make, at any time and in any
\* order.
catalogOrder == <<"p1", "p2", "p3">>

SeqMaxOrders == 1

\* The item lists drawn: one and two items, tracked and untracked products,
\* a product id that resolves to no row, the same product twice.
SeqItemLists ==
    {<<[productId |-> p, quantity |-> q]>> :
        p \in {"p1", "p3", MissingProduct}, q \in 1 .. MaxQty}
        \cup {<<[productId |-> "p1", quantity |-> 1],
                [productId |-> "p2", quantity |-> MaxQty]>>,
              <<[productId |-> "p3", quantity |-> 1],
                [productId |-> "p1", quantity |-> MaxQty]>>,
              <<[productId |-> "p1", quantity |-> 1],
                [productId |-> "p1", quantity |-> 1]>>,
              <<[productId |-> "p1", quantity |-> 1],
                [productId |-> MissingProduct, quantity |-> 1]>>}

\* The handlers of the sequence whose first statement is drawn to reject.
SeqHandlers == {"register", "createOrder", "updateStock", "cancelOrder"}

SeqNext ==
    \/ \E u \in UserIds : RegFind(1, u)
    \/ RegisterSteps(1)
    \/ RegFail(1)
    \/ \E u \in {"u1", "admin1"}, id \in {"u1", "admin1"} : DeleteUser(1, u, id)
    \/ \E k \in DOMAIN catalogOrder :
          CreateProduct(1, catalogOrder[k], productTemplates[catalogOrder[k]])
    \/ \E p \in {"p2", MissingProduct} : DeleteProduct(1, p)
    \/ \E u \in UserIds, items \in SeqItemLists :
          /\ \/ Len(orders) < SeqMaxOrders
             \/ ~userExists(u)
             \/ createOrderPrecheck(items) # 0
          /\ CoUser(1, u, items)
    \/ CreateOrderSteps(1)
    \/ \E p \in {"p1", "p3", MissingProduct}, op \in StockOperations,
          q \in 0 .. MaxQty, t \in SeqStockTypes : UsRead(1, p, op, q, t)
    \/ UpdateStockSteps(1)
    \/ UsFail(1)
    \/ \E u \in Callers, oid \in 1 .. MaxOrders : CaRead(1, u, oid)
    \/ CancelOrderSteps(1)
    \/ \E op \in SeqHandlers : RejectFirst(1, op)

SeqSpec == Init /\ [][SeqNext]_vars

\* createOrder, cancelOrder and updateStock on a catalogue from which nothing
\* is deleted, with requests that name products of the catalogue only.
ResolvedProducts == {"p1", "p2"}

ResolvedItemLists ==
    {items \in ItemLists :
        \A i \in DOMAIN items : items[i].productId \in ResolvedProducts}

ResolvedNext ==
    \/ \E u \in UserIds : RegFind(1, u)
    \/ RegisterSteps(1)
    \/ \E k \in 1 .. 2 :
          CreateProduct(1, catalogOrder[k], productTemplates[catalogOrder[k]])
    \/ \E u \in UserIds, items \in ResolvedItemLists : CoUser(1, u, items)
    \/ CreateOrderSteps(1)
    \/ \E op \in StockOperations, q \in 0 .. MaxQty, t \in SeqStockTypes :
          UsRead(1, "p1", op, q, t)
    \/ UpdateStockSteps(1)
    \/ \E u \in UserIds, oid \in 1 .. MaxOrders : CaRead(1, u, oid)
    \/ \E k \in 1 .. MaxItems : CaRestore(1, k)
    \/ \E k \in 1 .. MaxItems : CaMovement(1, k)
    \/ CaStatus(1)

ResolvedSpec == Init /\ [][ResolvedNext]_vars

-----------------------------------------------------------------------------
(* The amounts of an order: createOrder on a catalogue whose prices and     *)
(* quantities bring the subtotal to both sides of the shipping threshold.   *)

TotalsQty == 3

TotalsItemLists ==
    {<<[productId |-> "p1", quantity |-> q]>> : q \in 1 .. TotalsQty}
        \cup {<<[productId |-> "p2", quantity |-> TotalsQty]>>,
              <<[productId |-> "p3", quantity |-> 1],
                [productId |-> "p2", quantity |-> TotalsQty]>>,
              <<[productId |-> "p2", quantity |-> TotalsQty],
                [productId |-> "p1", quantity |-> 1]>>}

TotalsUpdateBodies ==
    <<[stock |-> MaxStock], [price |-> 19999], [price |-> 10],
      [status |-> "ACTIVE"]>>

TotalsNext ==
    \/ \E u \in UserIds : RegFind(1, u)
    \/ RegisterSteps(1)
    \/ \E p \in ProductIds : CreateProduct(1, p, productTemplates[p])
    \/ \E p \in {"p1", "p2"}, k \in DOMAIN TotalsUpdateBodies :
          UpdateProduct(1, p, TotalsUpdateBodies[k])
    \/ UpdateProductWrite(1)
    \/ UpdateProductFail(1)
    \/ \E u \in UserIds, items \in TotalsItemLists : CoUser(1, u, items)
    \/ CreateOrderSteps(1)

TotalsSpec == Init /\ [][TotalsNext]_vars

-----------------------------------------------------------------------------
(* The life of an order: the status and payment handlers run one after the  *)
(* other on orders made by createOrder.                                     *)

LifeItemLists == {<<[productId |-> "p1", quantity |-> 1]>>}

LifeMethods == {"CHAPA", "CASH_ON_DELIVERY"}

LifeMaxOrders == 1

LifeMaxPayments == 1

\* An order is made: the user, the product, and the createOrder request.
MakeOrder ==
    \/ \E u \in UserIds : RegFind(1, u)
    \/ RegisterSteps(1)
    \/ CreateProduct(1, "p1", productTemplates["p1"])
    \/ \E u \in UserIds, items \in LifeItemLists :
          Len(orders) < LifeMaxOrders /\ CoUser(1, u, items)
    \/ CreateOrderSteps(1)

\* The requesters of the life of an order: its owner and another customer.
LifeCallers == {"u1", "u2"}

LifeNext ==
    \/ MakeOrder
    \/ \E oid \in 1 .. LifeMaxOrders, os \in OrderStatus \cup {None},
          ps \in PaymentStatus \cup {None} : UosRead(1, oid, os, ps)
    \/ UosUpdate(1)
    \/ UosFail(1)
    \/ \E u \in LifeCallers, oid \in 1 .. LifeMaxOrders : CaRead(1, u, oid)
    \/ \E k \in 1 .. MaxItems : CaRestore(1, k)
    \/ \E k \in 1 .. MaxItems : CaMovement(1, k)
    \/ CaStatus(1)
    \/ \E u \in LifeCallers, oid \in 1 .. LifeMaxOrders, m \in LifeMethods :
          /\ Len(payments) < LifeMaxPayments
          /\ PpRead(1, u, oid, m) \/ IpRead(1, u, oid, m)
    \/ \E txId \in 1 .. MaxPayments : WhFind(1, txId)
    \/ PaymentSteps(1)

LifeSpec == Init /\ [][LifeNext]_vars

\* The payment handlers alone, on orders made by createOrder.
PayNext ==
    \/ MakeOrder
    \/ \E u \in Callers, oid \in 1 .. MaxOrders, m \in PaymentMethod :
          PpRead(1, u, oid, m) \/ IpRead(1, u, oid, m)
    \/ \E txId \in 1 .. MaxPayments : WhFind(1, txId)
    \/ PaymentSteps(1)
    \/ PaymentFails(1)
    \/ \E op \in {"processPayment", "initiatePayment", "paymentWebhook"} :
          RejectFirst(1, op)

PaySpec == Init /\ [][PayNext]_vars

-----------------------------------------------------------------------------
(* Requests of every role on the order routes.                              *)

AuthItemLists == LifeItemLists

\* The bodies of the status requests.
AuthOrderStatuses == {None, "CONFIRMED", "SHIPPED", "CANCELLED"}

AuthPaymentStatuses == {None, "PAID"}

AuthNext ==
    \/ MakeOrder
    \/ \E u \in AuthCallers, oid \in 1 .. MaxOrders : CaRead(1, u, oid)
    \/ \E k \in 1 .. MaxItems : CaRestore(1, k)
    \/ \E k \in 1 .. MaxItems : CaMovement(1, k)
    \/ CaStatus(1)
    \/ \E u \in AuthCallers, oid \in 1 .. MaxOrders : GetOrderById(1, u, oid)
    \/ \E u \in AuthCallers, userId \in AuthUserIds \cup {None},
          first \in ReadStatements : GetAllOrders(1, u, userId, first)
    \/ GetAllOrdersRest(1)
    \/ \E u \in AuthCallers, id \in AuthUserIds, first \in ReadStatements :
          GetUserOrders(1, u, id, first)
    \/ GetUserOrdersRest(1)
    \/ ReadFail(1)
    \/ \E u \in AuthCallers, oid \in 1 .. MaxOrders,
          os \in AuthOrderStatuses, ps \in AuthPaymentStatuses :
          PatchOrderStatus(1, u, oid, os, ps)
    \/ UosUpdate(1)
    \/ \E op \in {"getOrderById", "getAllOrders", "getUserOrders"} :
          RejectFirst(1, op)

AuthSpec == Init /\ [][AuthNext]_vars

-----------------------------------------------------------------------------
(* Two connections: createOrder, updateStock and cancelOrder requests that  *)
(* overtake each other at every await, on a catalogue filled beforehand.    *)

\* The item lists, stock operations and quantities the exploration draws.
ConcItemLists ==
    {<<[productId |-> "p1", quantity |-> q]>> : q \in 1 .. MaxQty}
        \cup {<<[productId |-> "p1", quantity |-> 1],
                [productId |-> "p2", quantity |-> 1]>>,
              <<[productId |-> "p3", quantity |-> 1],
                [productId |-> "p1", quantity |-> MaxQty]>>}

\* The register and createProduct requests, taken by the first connection
\* whenever it is free.
Prepare ==
    \/ \E u \in UserIds : RegFind(1, u)
    \/ RegisterSteps(1)
    \/ \E k \in DOMAIN catalogOrder :
          CreateProduct(1, catalogOrder[k], productTemplates[catalogOrder[k]])

ConcNext ==
    \/ Prepare
    \/ \E r \in Procs :
          \/ \E u \in UserIds, items \in ConcItemLists : CoUser(r, u, items)
          \/ CreateOrderSteps(r)
          \/ CoAbort(r)
          \/ \E op \in StockOperations, q \in {0, MaxQty} : UsRead(r, "p1", op, q, "none")
          \/ UpdateStockSteps(r)
          \/ UsFail(r)
          \/ \E u \in UserIds, oid \in 1 .. MaxOrders : CaRead(r, u, oid)
          \/ \E k \in 1 .. MaxItems : CaRestore(r, k)
          \/ \E k \in 1 .. MaxItems : CaMovement(r, k)
          \/ CaStatus(r)
          \/ \E op \in {"createOrder", "updateStock"} : RejectFirst(r, op)

ConcSpec == Init /\ [][ConcNext]_vars

\* cancelOrder requests on two connections, whose statements can fail, on
\* orders made by createOrder.  The register, createProduct, deleteProduct
\* and createOrder requests are taken by the first connection, the
\* cancelOrder requests by either, whenever the connection is free.
CancelItemLists ==
    {<<[productId |-> "p1", quantity |-> 1]>>,
     <<[productId |-> "p1", quantity |-> 1], [productId |-> "p2", quantity |-> 1]>>}

CancelNext ==
    \/ \E u \in UserIds : RegFind(1, u)
    \/ RegisterSteps(1)
    \/ \E p \in {"p1", "p2"} : CreateProduct(1, p, productTemplates[p])
    \/ \E p \in {"p2"} : DeleteProduct(1, p)
    \/ \E u \in UserIds, items \in CancelItemLists :
          CoUser(1, u, items)
    \/ CreateOrderSteps(1)
    \/ \E r \in Procs :
          \/ \E u \in UserIds, oid \in 1 .. MaxOrders :
                CaRead(r, u, oid)
          \/ CancelOrderSteps(r)
          \/ \E k \in 0 .. MaxItems : CaFail(r, k)
          \/ RejectFirst(r, "cancelOrder")

CancelSpec == Init /\ [][CancelNext]_vars

-----------------------------------------------------------------------------
(* Claims about the state machine, under FsmSpec.                           *)

\* C1: validateOrderStatusTransition succeeds, changing nothing, exactly for
\* the nine listed pairs of order statuses and fails with 400 for every other
\* ordered pair of the seven statuses.
C1_Edges ==
    {<<"PENDING", "CONFIRMED">>, <<"PENDING", "CANCELLED">>,
     <<"CONFIRMED", "PROCESSING">>, <<"CONFIRMED", "CANCELLED">>,
     <<"PROCESSING", "SHIPPED">>, <<"PROCESSING", "CANCELLED">>,
     <<"SHIPPED", "DELIVERED">>, <<"SHIPPED", "CANCELLED">>,
     <<"DELIVERED", "REFUNDED">>}

C1_OrderTransitionTable ==
    resp.op = "validateOrderStatusTransition" =>
        /\ (<<fsmIn.cur, fsmIn.new>> \in C1_Edges => resp.code = 0)
        /\ (<<fsmIn.cur, fsmIn.new>> \notin C1_Edges => resp.code = 400)
        /\ orders = <<>> /\ payments = <<>> /\ movements = EmptyBag

C1_Witness ==
    /\ resp.op = "validateOrderStatusTransition"
    /\ fsmIn.cur = "SHIPPED" /\ fsmIn.new = "CANCELLED"
    /\ resp.code = 0

\* C2: validatePaymentStatusTransition succeeds exactly for the six listed
\* pairs of payment statuses and fails with 400 for every other ordered pair.
C2_Edges ==
    {<<"PENDING", "PAID">>, <<"PENDING", "FAILED">>,
     <<"PAID", "REFUNDED">>, <<"PAID", "PARTIALLY_REFUNDED">>,
     <<"FAILED", "PENDING">>, <<"PARTIALLY_REFUNDED", "REFUNDED">>}

C2_PaymentTransitionTable ==
    resp.op = "validatePaymentStatusTransition" =>
        /\ (<<fsmIn.cur, fsmIn.new>> \in C2_Edges => resp.code = 0)
        /\ (<<fsmIn.cur, fsmIn.new>> \notin C2_Edges => resp.code = 400)

C2_Witness ==
    /\ resp.op = "validatePaymentStatusTransition"
    /\ fsmIn.cur = "FAILED" /\ fsmIn.new = "PAID"
    /\ resp.code = 400

\* C13: getOrderStatusFromPayment maps PAID to CONFIRMED, FAILED to PENDING,
\* REFUNDED to REFUNDED, and PENDING and PARTIALLY_REFUNDED to PENDING.
C13_DerivedStatus ==
    fsmIn.kind = "derived" =>
        /\ fsmIn.cur = "PAID" => fsmIn.new = "CONFIRMED"
        /\ fsmIn.cur = "FAILED" => fsmIn.new = "PENDING"
        /\ fsmIn.cur = "REFUNDED" => fsmIn.new = "REFUNDED"
        /\ fsmIn.cur \in {"PENDING", "PARTIALLY_REFUNDED"} => fsmIn.new = "PENDING"

C13_Witness ==
    /\ resp.op = "getOrderStatusFromPayment"
    /\ fsmIn = [kind |-> "derived", cur |-> "PARTIALLY_REFUNDED", new |-> "PENDING"]

\* C16 (first part): getPaymentProvider returns a provider for CHAPA,
\* TELEBIRR and SANTIM_PAY and null for every other method name.
C16_ProviderOnlyForGateways ==
    fsmIn.kind = "provider" =>
        (fsmIn.new # None <=> fsmIn.cur \in {"CHAPA", "TELEBIRR", "SANTIM_PAY"})

-----------------------------------------------------------------------------
(* Claims about createOrder served on its own.                              *)

C7_Short(items) ==
    \E i \in DOMAIN items :
        /\ productExists(items[i].productId)
        /\ trackInventory[items[i].productId]
        /\ stock[items[i].productId] < items[i].quantity

\* The createOrder request on the first connection has an item of a tracked
\* product whose stock is short, and its product lookup runs in this step.
C7_ShortLookup ==
    /\ resp.op = "createOrder" /\ resp.pc = "products"
    /\ C7_Short(resp.items)
    /\ CoProducts(1)

\* Such a request arrives and its user lookup runs in this step.
C7_ShortArrives(u, items) ==
    resp'.op = "createOrder" /\ C7_Short(items) /\ CoUser(1, u, items)

\* C7 as stated: a createOrder request with an item of a tracked product
\* whose stock is below the requested quantity answers 400 and changes no
\* product, order, movement or user row.
C7_InsufficientStockIs400 ==
    [][/\ \A u \in UserIds, items \in SeqItemLists :
             C7_ShortArrives(u, items) =>
                (UNCHANGED dbVars /\ (resp'.pc = "done" => resp'.code = 400))
       /\ C7_ShortLookup =>
             (resp'.pc = "done" /\ resp'.code = 400 /\ UNCHANGED dbVars)]_vars

\* C7 amended: such a request fails and changes nothing; the answer is 400
\* unless the user has no row or some productId of the request does not
\* resolve or is repeated, in which case it is the 404 of the lookup.
C7_InsufficientStockFails ==
    [][/\ \A u \in UserIds, items \in SeqItemLists :
             C7_ShortArrives(u, items) =>
                /\ UNCHANGED dbVars
                /\ IF userExists(u) THEN resp'.pc = "products"
                   ELSE resp'.pc = "done" /\ resp'.code = 404
       /\ C7_ShortLookup =>
             /\ UNCHANGED dbVars
             /\ resp'.pc = "done"
             /\ resp'.code = IF someProductsNotFound(resp.items)
                             THEN 404 ELSE 400]_vars

\* A request was refused with 400 when an order had taken stock.
C7_Witness ==
    /\ resp.op = "createOrder" /\ resp.code = 400
    /\ \E p \in ProductIds :
          productExists(p) /\ trackInventory[p] /\ stock[p] < MaxQty
    /\ orders # <<>>
    /\ \A u \in UserIds : userExists(u)

\* The sum of the item subtotals, in units of 1/10000.
RECURSIVE C9_Sum(_, _)
C9_Sum(its, k) ==
    IF k = 0 THEN 0 ELSE C9_Sum(its, k - 1) + toScale(its[k].subtotal)

\* The amounts of order row o but its shipping cost, in units of 1/10000,
\* against the prices of the products in cents.
C9_Arithmetic(o) ==
    /\ \A i \in DOMAIN o.items :
          /\ o.items[i].price = price[o.items[i].productId]
          /\ toScale(o.items[i].subtotal) =
                o.items[i].price * o.items[i].quantity * (Scale \div 100)
    /\ toScale(o.subtotal) = C9_Sum(o.items, Len(o.items))
    /\ 100 * toScale(o.tax) = TaxRatePercent * toScale(o.subtotal)
    /\ toScale(o.discount) = 0
    /\ toScale(o.total) = toScale(o.subtotal) + toScale(o.tax)
                             + toScale(o.shippingCost) - toScale(o.discount)

C9_Shipping(o) ==
    toScale(o.shippingCost) =
        IF toScale(o.subtotal) > 500 * Scale THEN 0 ELSE 25 * Scale

C9_Example(o) ==
    (Len(o.items) = 1 /\ o.items[1].price = 10000 /\ o.items[1].quantity = 2) =>
        /\ toScale(o.subtotal) = 200 * Scale /\ toScale(o.tax) = 30 * Scale
        /\ toScale(o.shippingCost) = 25 * Scale
        /\ toScale(o.total) = 255 * Scale

C9_Amounts(o) == C9_Arithmetic(o) /\ C9_Shipping(o) /\ C9_Example(o)

\* C9: every order createOrder stores has item subtotal = unit price x
\* quantity, subtotal = sum of the item subtotals, tax = 15% of the subtotal,
\* shippingCost = 0 above 500 and 25 up to and including 500, discount = 0
\* and total = subtotal + tax + shippingCost - discount, each amount taken to
\* the nearest 1/10000; 2 units at 100 give 200 / 30 / 25 / 255.
C9_OrderTotals ==
    [][Len(orders') = Len(orders) + 1 => C9_Amounts(orders'[Len(orders')])]_vars

\* The part of C9 that does not concern the shipping cost: the item
\* subtotals, the subtotal, the tax, the discount, the total and the example.
C9_AmountsButShipping ==
    [][Len(orders') = Len(orders) + 1 =>
          (C9_Arithmetic(orders'[Len(orders')])
              /\ C9_Example(orders'[Len(orders')]))]_vars

C10_NewOrder == orders'[Len(orders')]

C10_ItemOf(p) ==
    {i \in DOMAIN C10_NewOrder.items : C10_NewOrder.items[i].productId = p}

C10_SaleRow(p, q) ==
    [productId |-> p, quantityDelta |-> -q, type |-> "SALE",
     referenceId |-> Len(orders')]

\* C10: a successful createOrder lowers the stock of each tracked item's
\* product by the quantity, raises its salesCount by the quantity, marks it
\* OUT_OF_STOCK when the stock reaches 0, appends exactly one SALE movement
\* of -quantity referencing the new order, leaves untracked products and
\* products not ordered alone, and adds 1 and the total to the user's
\* totalOrders and totalSpent.
C10_CreateOrderEffects ==
    [][Len(orders') = Len(orders) + 1 =>
        LET o == C10_NewOrder
        IN  /\ resp'.op = "createOrder" /\ resp'.code = 201
            /\ \A p \in ProductIds :
                  IF trackInventory[p] /\ C10_ItemOf(p) # {}
                  THEN \A i \in C10_ItemOf(p) :
                          LET q == o.items[i].quantity
                          IN  /\ stock'[p] = stock[p] - q
                              /\ salesCount'[p] = salesCount[p] + q
                              /\ (stock'[p] = 0 => pstatus'[p] = "OUT_OF_STOCK")
                              /\ CopiesIn(C10_SaleRow(p, q), movements')
                                    = CopiesIn(C10_SaleRow(p, q), movements) + 1
                  ELSE /\ stock'[p] = stock[p]
                       /\ salesCount'[p] = salesCount[p]
                       /\ pstatus'[p] = pstatus[p]
                       /\ \A m \in BagToSet(movements') :
                              m.productId = p =>
                                  CopiesIn(m, movements') = CopiesIn(m, movements)
            /\ BagCardinality(movements') = BagCardinality(movements)
                  + Cardinality({p \in ProductIds :
                                    trackInventory[p] /\ C10_ItemOf(p) # {}})
            /\ users'[o.userId].totalOrders = users[o.userId].totalOrders + 1
            /\ toScale(users'[o.userId].totalSpent) =
                  toScale(users[o.userId].totalSpent) + toScale(o.total)
            /\ \A u \in UserIds \ {o.userId} : users'[u] = users[u]]_vars

C10_Witness ==
    /\ resp.op = "createOrder" /\ resp.code = 201
    /\ LET o == orders[Len(orders)]
       IN  /\ Len(o.items) = 2
           /\ \E i, j \in DOMAIN o.items :
                 /\ ~trackInventory[o.items[i].productId]
                 /\ trackInventory[o.items[j].productId]
                 /\ stock[o.items[j].productId] = 0
                 /\ pstatus[o.items[j].productId] = "OUT_OF_STOCK"
                 /\ salesCount[o.items[j].productId] = o.items[j].quantity
           /\ users[o.userId].totalOrders = 1
           /\ users[o.userId].totalSpent = o.total
           /\ toScale(o.total) > 0

-----------------------------------------------------------------------------
(* Claims about the handlers run concurrently, under ConcSpec.              *)

\* C5: the stock of every product that tracks inventory is never negative,
\* whatever the sequence or interleaving of createOrder, cancelOrder and
\* updateStock requests.
C5_StockNonNegative ==
    \A p \in ProductIds : trackInventory[p] => stock[p] >= 0

C6_Committed(r) ==
    reqs[r].op = "createOrder" /\ reqs[r].pc = "done" /\ reqs[r].code = 201

C6_Items(r) == orders[reqs[r].oid].items

C6_ItemsOf(r, p) ==
    {i \in DOMAIN C6_Items(r) : C6_Items(r)[i].productId = p}

C6_OnlySales(p) ==
    \A m \in BagToSet(movements) : m.productId = p => m.type = "SALE"

\* C6: two concurrent createOrder requests for the same tracked product,
\* whose re-checks inside the transaction read the same stock and whose
\* quantities together exceed it, do not both commit (no other kind of
\* request having touched the product).
C6_NoOversell ==
    \A r1, r2 \in Procs, p \in ProductIds :
        (r1 # r2 /\ trackInventory[p] /\ C6_OnlySales(p)
            /\ C6_Committed(r1) /\ C6_Committed(r2)) =>
        \A i1 \in C6_ItemsOf(r1, p), i2 \in C6_ItemsOf(r2, p) :
            reqs[r1].seen[i1] = reqs[r2].seen[i2] =>
                C6_Items(r1)[i1].quantity + C6_Items(r2)[i2].quantity
                    <= reqs[r1].seen[i1]

C8_TrackedItems(its) ==
    {i \in DOMAIN its : trackInventory[its[i].productId]}

\* The totals of the orders of user u, added up in the order of the rows.
RECURSIVE C8_SumTotals(_, _, _)
C8_SumTotals(os, k, u) ==
    IF k = 0 THEN fromInt(0)
    ELSE IF os[k].userId = u
    THEN fadd(C8_SumTotals(os, k - 1, u), os[k].total)
    ELSE C8_SumTotals(os, k - 1, u)

\* Every committed order has its items, one SALE movement per tracked item
\* and its share of the user's aggregates; every SALE movement belongs to
\* such an item.
C8_StateInv ==
    /\ \A k \in DOMAIN orders :
          /\ orders[k].items # <<>>
          /\ \A i \in C8_TrackedItems(orders[k].items) :
                CopiesIn([productId |-> orders[k].items[i].productId,
                          quantityDelta |-> -orders[k].items[i].quantity,
                          type |-> "SALE", referenceId |-> k], movements) = 1
    /\ \A m \in BagToSet(movements) :
          m.type = "SALE" =>
              /\ m.referenceId \in DOMAIN orders
              /\ \E i \in C8_TrackedItems(orders[m.referenceId].items) :
                    /\ orders[m.referenceId].items[i].productId = m.productId
                    /\ orders[m.referenceId].items[i].quantity = -m.quantityDelta
    /\ \A u \in UserIds :
          /\ users[u].totalOrders = Cardinality({k \in DOMAIN orders : orders[k].userId = u})
          /\ users[u].totalSpent = C8_SumTotals(orders, Len(orders), u)

C8_AllEffects(r) ==
    LET q   == reqs[r]
        o   == orders'[Len(orders')]
        oid == Len(orders')
    IN  /\ reqs'[r].pc = "done" /\ reqs'[r].code = 201
        /\ orders' = Append(orders, o)
        /\ Len(o.items) = Len(q.items)
        /\ \A i \in DOMAIN q.items :
              /\ o.items[i].productId = q.items[i].productId
              /\ o.items[i].quantity = q.items[i].quantity
        /\ \A p \in ProductIds :
              LET is == {i \in C8_TrackedItems(q.items) : q.items[i].productId = p}
              IN  IF is = {}
                  THEN stock'[p] = stock[p] /\ salesCount'[p] = salesCount[p]
                  ELSE \A i \in is :
                          /\ stock'[p] = stock[p] - q.items[i].quantity
                          /\ salesCount'[p] = salesCount[p] + q.items[i].quantity
                          /\ CopiesIn(movementRow(p, -q.items[i].quantity, "SALE", oid),
                                      movements') = 1
        /\ BagCardinality(movements') =
              BagCardinality(movements) + Cardinality(C8_TrackedItems(q.items))
        /\ users'[q.u].totalOrders = users[q.u].totalOrders + 1
        /\ users'[q.u].totalSpent = fadd(users[q.u].totalSpent, o.total)

C8_Step ==
    \A r \in Procs :
        (reqs'[r].op = "createOrder" /\ reqs'[r] # reqs[r]) =>
            /\ UNCHANGED dbVars \/ C8_AllEffects(r)
            /\ reqs'[r].code # 201 => UNCHANGED dbVars
            /\ reqs'[r].code = 201 => C8_AllEffects(r)

\* C8: createOrder is all-or-nothing.  No step of a createOrder request
\* changes a table except its commit, which adds the order with all its
\* items, the decrement and SALE movement of every tracked item and the
\* user's aggregates together; a request that fails, also after its order
\* row was written inside the transaction, leaves every table as it was.
C8_AllOrNothing == []C8_StateInv /\ [][C8_Step]_vars

\* A request failed at the user update, after its order row and its product
\* updates were written inside the transaction, and no table holds a row.
C8_Witness ==
    \E r \in Procs :
        /\ reqs[r].op = "createOrder" /\ reqs[r].pc = "done" /\ reqs[r].code = 500
        /\ reqs[r].failedAt = "user"
        /\ orders = <<>> /\ movements = EmptyBag
        /\ \A p \in ProductIds : productExists(p) /\ salesCount[p] = 0
        /\ \A p \in ProductIds : stock[p] = productTemplates[p].stock
        /\ \A u \in UserIds : users[u].totalOrders = 0

\* C24: no concurrent stock change is lost by updateStock: the stock its
\* write stores is the requested operation applied to the stock the product
\* has when the write runs, so two overlapping increases add up and an order
\* committed between its read and its write stays deducted.
C24_NoLostUpdate ==
    [][\A r \in Procs :
          (UsBatch(r) /\ reqs'[r].pc = "reread") =>
             stock'[reqs[r].productId] =
                newStockOf(reqs[r].operation, reqs[r].quantity,
                           stock[reqs[r].productId])]_vars

-----------------------------------------------------------------------------
(* The text of an order number: order.controller.ts 691                     *)

DigitText == <<"0", "1", "2", "3", "4", "5", "6", "7", "8", "9">>

\* Number.prototype.toString() of a natural number, and its length.
RECURSIVE numberToString(_)
numberToString(n) ==
    IF n < 10 THEN DigitText[n + 1]
    ELSE numberToString(n \div 10) \o DigitText[(n % 10) + 1]

RECURSIVE numberOfDigits(_)
numberOfDigits(n) == IF n < 10 THEN 1 ELSE 1 + numberOfDigits(n \div 10)

\* "0" repeated k times.
RECURSIVE zeros(_)
zeros(k) == IF k <= 0 THEN "" ELSE "0" \o zeros(k - 1)

\* `ORD-${n.toString().padStart(6, "0")}`
orderNumberText(n) == "ORD-" \o zeros(6 - numberOfDigits(n)) \o numberToString(n)

\* C27: no two persisted orders share an order number, also when two
\* createOrder requests overlap: each order carries "ORD-" followed by the
\* number of orders that existed before it plus one, padded to six digits.
C27_UniqueOrderNumbers ==
    \A i, j \in DOMAIN orders :
       i # j => orderNumberText(orders[i].orderNumber)
                   # orderNumberText(orders[j].orderNumber)

\* C28: the stock of an order's items is restored at most once under any
\* interleaving of cancelOrder requests for the same order: no request
\* increments the stock of an order that another request has already
\* restored, and at most one RETURN movement per item is appended.
C28_ReturnRows(oid) ==
    {movementRow(orders[oid].items[k].productId, orders[oid].items[k].quantity,
                 "RETURN", oid) : k \in DOMAIN orders[oid].items}

C28_OneReturnPerItem ==
    \A oid \in DOMAIN orders :
       \A m \in C28_ReturnRows(oid) : CopiesIn(m, movements) <= 1

C28_RestoredBefore(r, k) ==
    \/ CopiesIn(movementRow(reqs[r].items[k].productId, reqs[r].items[k].quantity,
                            "RETURN", reqs[r].oid), movements) >= 1
    \/ \E r2 \in Procs \ {r} :
          /\ reqs[r2].op = "cancelOrder"
          /\ reqs[r2].oid = reqs[r].oid
          /\ \/ reqs[r2].pc \in {"movements", "status"}
             \/ reqs[r2].pc = "restore" /\ k \notin reqs[r2].todo

C28_NoSecondRestore ==
    \A r \in Procs, k \in 1 .. MaxItems :
       (reqs[r].op = "cancelOrder" /\ reqs[r].pc = "restore"
           /\ CaRestore(r, k) /\ stock' # stock)
          => ~C28_RestoredBefore(r, k)

C28_RestoredAtMostOnce == []C28_OneReturnPerItem /\ [][C28_NoSecondRestore]_vars

-----------------------------------------------------------------------------
(* Claims about the life of an order, under LifeSpec.                       *)

\* C3: every change of an order's stored orderStatus goes along an edge of
\* the order-status table, whichever handler makes it; so a CANCELLED or
\* REFUNDED order keeps its status.
C3_StatusFollowsTable ==
    [][\A oid \in DOMAIN orders :
          orders'[oid].orderStatus # orders[oid].orderStatus
             => orders'[oid].orderStatus \in VALID_TRANSITIONS[orders[oid].orderStatus]]_vars

\* The timestamps of an order that are set.
C4_Stamps == {"shippedAt", "deliveredAt", "cancelledAt", "paidAt"}

\* The request names no status other than those the order is in.
C4_SameStatus(o, os, ps) ==
    /\ os \in {None, o.orderStatus}
    /\ ps \in {None, o.paymentStatus}
    /\ os # None \/ ps # None

\* The update of an updateOrderStatus request on the first connection runs
\* in this step.
C4_Update == resp.op = "updateOrderStatus" /\ resp.pc = "update" /\ UosUpdate(1)

\* C4: an updateOrderStatus call for a status the order is already in leaves
\* every timestamp that is set at its stored value.
C4_TimestampsSetOnce ==
    [][(/\ C4_Update
        /\ C4_SameStatus(orders[resp.oid], resp.orderStatus, resp.paymentStatus))
          => \A f \in C4_Stamps :
                orders[resp.oid][f] # 0
                   => orders'[resp.oid][f] = orders[resp.oid][f]]_vars

\* The requester passes the authorization check of cancelOrder.
C12_MayCancel(u, oid) == role[u] # "CUSTOMER" \/ orders[oid].userId = u

\* The statuses in which the claim lets an order be cancelled.
C12_Open(o) == o.orderStatus \in {"PENDING", "CONFIRMED"}

\* The order, the products and the movements are as they were.
C12_NothingChanges ==
    UNCHANGED <<orders, stock, salesCount, pstatus, movements>>

\* The request answers 200 in this step.
C12_Succeeds ==
    resp'.op = "cancelOrder" /\ resp'.code = 200 /\ resp.pc # "done"

\* C12 as stated: cancelOrder succeeds only on a PENDING or CONFIRMED order,
\* and on an order in any other status it answers 400 and changes nothing.
C12_CancelNeedsOpenOrder ==
    [][/\ C12_Succeeds => C12_Open(orders[resp.oid])
       /\ \A u \in Callers, oid \in DOMAIN orders :
             (resp'.op = "cancelOrder" /\ ~C12_Open(orders[oid])
                 /\ CaRead(1, u, oid)) =>
                /\ resp'.pc = "done" /\ resp'.code = 400
                /\ C12_NothingChanges]_vars

\* C12: cancelOrder succeeds only on a PENDING or CONFIRMED order; on an
\* order in any other status it fails and changes nothing, with 400 when the
\* requester owns the order or is not a CUSTOMER and with 403 otherwise.
C12_CancelNeedsOpenOrder_Auth ==
    [][/\ C12_Succeeds => C12_Open(orders[resp.oid])
       /\ \A u \in Callers, oid \in DOMAIN orders :
             (resp'.op = "cancelOrder" /\ ~C12_Open(orders[oid])
                 /\ CaRead(1, u, oid)) =>
                /\ resp'.pc = "done"
                /\ resp'.code = IF C12_MayCancel(u, oid) THEN 400 ELSE 403
                /\ C12_NothingChanges]_vars

\* A second cancel of an order that cancelOrder has cancelled was refused.
C12_Witness ==
    /\ resp.op = "cancelOrder" /\ resp.pc = "done" /\ resp.code = 400
    /\ \E oid \in DOMAIN orders :
          /\ orders[oid].orderStatus = "CANCELLED"
          /\ \E m \in BagToSet(movements) :
                m.type = "RETURN" /\ m.referenceId = oid
          /\ \A m \in BagToSet(movements) :
                (m.type = "RETURN" /\ m.referenceId = oid) =>
                   CopiesIn(m, movements) = 1

\* C14: a successful updateOrderStatus that supplies an orderStatus stores
\* that orderStatus, whatever paymentStatus comes with it; the status derived
\* from paymentStatus is stored only when orderStatus is omitted, and with
\* neither field the stored orderStatus stays.
C14_ExplicitStatusWins ==
    [][C4_Update =>
          /\ resp'.code = 200
          /\ orders'[resp.oid].orderStatus =
                IF resp.orderStatus # None THEN resp.orderStatus
                ELSE IF resp.paymentStatus # None
                THEN getOrderStatusFromPayment(resp.paymentStatus)
                ELSE orders[resp.oid].orderStatus]_vars

\* An update has answered 200 and the order is PROCESSING with a FAILED
\* payment status, from which PENDING would be derived.
C14_Witness ==
    /\ resp.op = "updateOrderStatus" /\ resp.code = 200
    /\ \E oid \in DOMAIN orders :
          /\ orders[oid].orderStatus = "PROCESSING"
          /\ orders[oid].paymentStatus = "FAILED"

\* The Payment rows of an order that are PAID.
C15_PaidRows(oid) ==
    {k \in DOMAIN payments :
        payments[k].orderId = oid /\ payments[k].status = "PAID"}

\* C15: every order has at most one Payment row with status PAID, whatever
\* the sequence of processPayment, initiatePayment and paymentWebhook calls.
C15_AtMostOnePaid ==
    \A oid \in DOMAIN orders : Cardinality(C15_PaidRows(oid)) <= 1

\* C16 (second part): processPayment and initiatePayment with method
\* CASH_ON_DELIVERY or BANK_TRANSFER that pass the order checks call no
\* provider: their next statement inserts one PAID Payment row of the order,
\* and the one after sets the order's paymentStatus to PAID.
C16_CashRequest(q) ==
    q.op \in {"processPayment", "initiatePayment"} /\ noProviderNeeded(q.method)

C16_CashPaysAtOnce ==
    [][/\ \A u \in Callers, oid \in DOMAIN orders, m \in PaymentMethod :
             (/\ resp'.op \in {"processPayment", "initiatePayment"}
              /\ noProviderNeeded(m)
              /\ PpRead(1, u, oid, m) \/ IpRead(1, u, oid, m))
                => resp'.pc \in {"done", "create"}
       /\ (C16_CashRequest(resp) /\ (PpCreate(1) \/ IpCreate(1))) =>
             /\ Len(payments') = Len(payments) + 1
             /\ payments'[Len(payments')].status = "PAID"
             /\ payments'[Len(payments')].orderId = resp.oid
             /\ payments'[Len(payments')].method = resp.method
             /\ resp'.pc = "order"
       /\ (C16_CashRequest(resp) /\ (PpOrder(1) \/ IpOrder(1))) =>
             /\ orders'[resp.oid].paymentStatus = "PAID"
             /\ resp'.code = 200]_vars

C19_Amounts(o) == <<o.subtotal, o.tax, o.shippingCost, o.discount, o.total>>

\* The identity to the nearest 1/10000.
C19_TotalIdentity ==
    \A oid \in DOMAIN orders :
        toScale(orders[oid].total) =
            toScale(orders[oid].subtotal) + toScale(orders[oid].tax)
               + toScale(orders[oid].shippingCost) - toScale(orders[oid].discount)

C19_AmountsKept ==
    \A oid \in DOMAIN orders : C19_Amounts(orders'[oid]) = C19_Amounts(orders[oid])

\* C19: every order has total = subtotal + tax + shippingCost - discount in
\* every state, and no step (updateOrderStatus, cancelOrder, processPayment,
\* initiatePayment, paymentWebhook) changes any of the five amounts of an
\* existing order.
C19_TotalsFrozen == []C19_TotalIdentity /\ [][C19_AmountsKept]_vars

\* An order that was paid and then cancelled by a status update.
C19_Witness ==
    \E oid \in DOMAIN orders :
        /\ orders[oid].paymentStatus = "PAID"
        /\ orders[oid].orderStatus = "CANCELLED"
        /\ Len(payments) > 0
        /\ toScale(orders[oid].total) = 140 * Scale

\* C20: every change of an order's stored paymentStatus goes along an edge
\* of the payment-status table, whichever handler makes it; so a FAILED or
\* REFUNDED payment status never becomes PAID in one step.
C20_PaymentStatusFollowsTable ==
    [][\A oid \in DOMAIN orders :
          orders'[oid].paymentStatus # orders[oid].paymentStatus
             => orders'[oid].paymentStatus \in validPayment[orders[oid].paymentStatus]]_vars

\* C21: an updateOrderStatus request that omits orderStatus and supplies the
\* paymentStatus the order already has leaves the stored orderStatus as it
\* was.
C21_DeriveOnlyOnChange ==
    [][(/\ C4_Update
        /\ resp.orderStatus = None
        /\ resp.paymentStatus = orders[resp.oid].paymentStatus)
          => orders'[resp.oid].orderStatus = orders[resp.oid].orderStatus]_vars

\* C22: in every state, an order that is SHIPPED has shippedAt set, one that
\* is DELIVERED has deliveredAt set, one that is CANCELLED has cancelledAt
\* set, and one whose paymentStatus is PAID has paidAt set.
C22_StatusHasTimestamp ==
    \A oid \in DOMAIN orders :
        /\ orders[oid].orderStatus = "SHIPPED" => orders[oid].shippedAt # 0
        /\ orders[oid].orderStatus = "DELIVERED" => orders[oid].deliveredAt # 0
        /\ orders[oid].orderStatus = "CANCELLED" => orders[oid].cancelledAt # 0
        /\ orders[oid].paymentStatus = "PAID" => orders[oid].paidAt # 0

\* An order paid through a payment handler and then shipped.
C22_Witness ==
    \E oid \in DOMAIN orders :
        /\ orders[oid].orderStatus = "SHIPPED"
        /\ orders[oid].paymentStatus = "PAID"
        /\ \E k \in DOMAIN payments :
              payments[k].orderId = oid /\ payments[k].status = "PAID"
        /\ orders[oid].paidAt # 0 /\ orders[oid].shippedAt # 0

\* C29: paymentWebhook is idempotent per transaction.  A call for a
\* transaction id whose Payment row is PAID, or that matches no Payment row,
\* answers success and changes no Payment row and no order; and after a
\* verified call the transaction is in that case, so a second delivery of
\* the same webhook leaves the state the first one left.
C29_Processed(txId) ==
    \A k \in DOMAIN payments :
       payments[k].transactionId = txId => payments[k].status = "PAID"

C29_WebhookIdempotent ==
    [][/\ \A txId \in 1 .. MaxPayments :
             (resp'.op = "paymentWebhook" /\ WhFind(1, txId)) =>
                /\ UNCHANGED <<orders, payments>>
                /\ C29_Processed(txId) => resp'.pc = "done" /\ resp'.code = 200
       /\ (resp.op = "paymentWebhook" /\ resp.pc = "payment" /\ WhPayment(1)) =>
             C29_Processed(payments[resp.pay].transactionId)']_vars

\* A webhook was answered when the only Payment row was one that
\* processPayment or initiatePayment stored as PAID.
C29_Witness ==
    /\ resp.op = "paymentWebhook" /\ resp.code = 200
    /\ Len(payments) = 1
    /\ payments[1].method = "CASH_ON_DELIVERY"
    /\ payments[1].status = "PAID"
    /\ orders[payments[1].orderId].paymentStatus = "PAID"

-----------------------------------------------------------------------------
(* Claims about cancelOrder and updateStock served on their own.            *)

\* The stock a product is created with.
C11_StockBefore(p) == productTemplates[p].stock

\* Nothing but order oid has touched product p: no other order names it and
\* every movement of p refers to oid.
C11_OnlyThisOrder(oid, p) ==
    /\ \A o \in DOMAIN orders : o # oid =>
          \A j \in DOMAIN orders[o].items : orders[o].items[j].productId # p
    /\ \A m \in BagToSet(movements) : m.productId = p => m.referenceId = oid

\* C11: createOrder followed by cancelOrder of that order, nothing else
\* having touched its products, leaves every product of the order (tracked or
\* not) with the stock and salesCount it had before, and the order CANCELLED
\* with cancelledAt set.
C11_CancelRestores ==
    \A oid \in DOMAIN orders :
        orders[oid].orderStatus = "CANCELLED" =>
            /\ orders[oid].cancelledAt # 0
            /\ \A j \in DOMAIN orders[oid].items :
                  LET p == orders[oid].items[j].productId
                  IN  (productExists(p) /\ C11_OnlyThisOrder(oid, p)) =>
                         /\ stock[p] = C11_StockBefore(p)
                         /\ salesCount[p] = 0

\* The movements that `after` has and `before` has not, as a bag.
C17_Added(before, after) == after (-) before

\* C17: updateStock on a tracked product with stock s and quantity q stores
\* s + q and records +q for increase, stores max(0, s - q) for decrease,
\* stores q and records q - s for set; the status becomes OUT_OF_STOCK when
\* the new stock is 0 and is unchanged otherwise.
C17_UpdateStockArithmetic ==
    [][(resp'.op = "updateStock" /\ resp'.pc = "reread" /\ UsBatch(1)) =>
          LET p  == resp.productId
              op == resp.operation
              q  == resp.quantity
              s  == stock[p]
              m  == CHOOSE r \in BagToSet(C17_Added(movements, movements')) : TRUE
          IN  /\ trackInventory[p]
              /\ op = "increase" => stock'[p] = s + q /\ m.quantityDelta = q
              /\ op = "decrease" =>
                    /\ stock'[p] = IF s - q > 0 THEN s - q ELSE 0
                    /\ stock'[p] >= 0
              /\ op = "set" => stock'[p] = q /\ m.quantityDelta = q - s
              /\ m.productId = p
              /\ pstatus'[p] = IF stock'[p] = 0 THEN "OUT_OF_STOCK"
                               ELSE pstatus[p]]_vars

\* A decrease by more than the stock left after a sale has emptied the stock.
C17_Witness ==
    /\ resp.op = "updateStock" /\ resp.code = 200
    /\ \E p \in ProductIds :
          /\ stock[p] = 0 /\ pstatus[p] = "OUT_OF_STOCK"
          /\ movements = SetToBag({movementRow(p, -1, "SALE", 1),
                                   movementRow(p, -MaxQty, "ADJUSTMENT", 0)})

\* C18: a successful updateStock appends exactly one movement, of the
\* product, together with the product update; on a missing product it
\* answers 404 and on a product that does not track inventory 400, and then
\* no movement is written and no product changes.
C18_UpdateStockUnit ==
    [][/\ \A p \in ProductIds \cup {MissingProduct}, op \in StockOperations,
             q \in 0 .. MaxQty, t \in SeqStockTypes :
             (resp'.op = "updateStock" /\ UsRead(1, p, op, q, t)) =>
                /\ UNCHANGED dbVars
                /\ IF ~productExists(p) THEN resp'.pc = "done" /\ resp'.code = 404
                   ELSE IF ~trackInventory[p]
                   THEN resp'.pc = "done" /\ resp'.code = 400
                   ELSE resp'.pc = "batch"
       /\ (resp'.op = "updateStock" /\ UsBatch(1)) =>
             LET p == resp.productId
             IN  /\ resp'.pc \in {"reread", "done"}
                 /\ resp'.pc = "reread" =>
                       /\ BagCardinality(C17_Added(movements, movements')) = 1
                       /\ movements \sqsubseteq movements'
                       /\ \A m \in BagToSet(C17_Added(movements, movements')) :
                             m.productId = p
                       /\ stock' = [stock EXCEPT ![p] =
                             newStockOf(resp.operation, resp.quantity, stock[p])]
                       /\ UNCHANGED <<catalog, price, salesCount, orders,
                                      accounts, users, payments>>
                 /\ resp'.pc = "done" =>
                       resp'.code = 404 /\ UNCHANGED dbVars
       /\ (resp'.op = "updateStock" /\ (UsReread(1) \/ UsFail(1))) =>
             /\ UNCHANGED dbVars
             /\ resp'.code = 200 <=> resp.pc = "reread" /\ UsReread(1)]_vars

\* An update of a product that does not track inventory was refused after a
\* successful update had written its movement.
C18_Witness ==
    /\ resp.op = "updateStock" /\ resp.code = 400
    /\ BagCardinality(movements) = 1
    /\ \E m \in BagToSet(movements) : m.type = "ADJUSTMENT"

\* C26: ledger consistency.  For every product, in every state reached by
\* createOrder, cancelOrder and updateStock with no request under way, the
\* current stock is the stock
\* the product had when the ledger was empty plus the sum of quantityDelta
\* over its inventory movements.
RECURSIVE C26_SumDeltas(_, _)
C26_SumDeltas(ms, rows) ==
    IF rows = {} THEN 0
    ELSE LET m == CHOOSE r \in rows : TRUE
         IN  m.quantityDelta * CopiesIn(m, ms) + C26_SumDeltas(ms, rows \ {m})

C26_Ledger(p) ==
    C26_SumDeltas(movements, {m \in BagToSet(movements) : m.productId = p})

C26_StockAtEmptyLedger(p) == productTemplates[p].stock

C26_LedgerConsistent ==
    (\A r \in Procs : free(r)) =>
        \A p \in ProductIds :
            productExists(p) => stock[p] = C26_StockAtEmptyLedger(p) + C26_Ledger(p)

\* C30: a createOrder request whose items name the same productId more than
\* once is answered 404 with no state change, and hence no order ever holds
\* two items for the same product.
C30_SameProductTwice(items) ==
    \E i, j \in DOMAIN items : i # j /\ items[i].productId = items[j].productId

C30_Rejected ==
    (resp.op = "createOrder" /\ resp.pc = "products"
        /\ C30_SameProductTwice(resp.items) /\ CoProducts(1))
       => resp'.pc = "done" /\ resp'.code = 404 /\ UNCHANGED dbVars

C30_NoDuplicateItems ==
    /\ [](\A oid \in DOMAIN orders : ~C30_SameProductTwice(orders[oid].items))
    /\ [][C30_Rejected]_vars

\* A createOrder request was answered 404 although the user and every
\* product it can name have their rows: it named a product twice.
C30_Witness ==
    /\ resp.op = "createOrder" /\ resp.code = 404
    /\ Len(orders) >= 1
    /\ \A p \in ResolvedProducts : productExists(p)

-----------------------------------------------------------------------------
(* Claims about cancelOrder requests that fail or overlap, under CancelSpec. *)

\* A cancelOrder request of order oid has failed after its stock restoration.
C23_FailedAfterRestore(oid) ==
    \E r \in Procs :
        /\ reqs[r].op = "cancelOrder" /\ reqs[r].oid = oid
        /\ reqs[r].pc = "done" /\ reqs[r].code = 500
        /\ reqs[r].failedAt \in {"movements", "status"}

\* C23: cancelOrder is not atomic.  Its stock restoration is a step of its
\* own that changes the products and neither the order nor the movements; a
\* failure of a later step keeps the restored stock and the open order; and
\* a later cancel of an order left open by such a failure is admitted to
\* restore the stock again.
C23_CancelNotAtomic ==
    [][\A r \in Procs :
          /\ \A k \in 1 .. MaxItems :
                (CaRestore(r, k) /\ reqs'[r].code = 0) =>
                   /\ stock'[reqs[r].items[k].productId]
                         = stock[reqs[r].items[k].productId]
                              + reqs[r].items[k].quantity
                   /\ orders' = orders /\ movements' = movements
          /\ \A k \in 0 .. MaxItems :
                (reqs[r].pc \in {"movements", "status"} /\ CaFail(r, k)) =>
                   UNCHANGED <<stock, salesCount, orders>>
          /\ \A u \in UserIds, oid \in DOMAIN orders :
                (/\ C23_FailedAfterRestore(oid)
                 /\ orders[oid].orderStatus \in {"PENDING", "CONFIRMED"}
                 /\ orders[oid].userId = u
                 /\ CaRead(r, u, oid)) => reqs'[r].pc = "restore"]_vars

\* The only cancel of the only order failed after restoring the stock: the
\* product has the stock and salesCount it had before the order, no RETURN
\* movement is written, and the order is still PENDING.
C23_Witness ==
    /\ Len(orders) = 1
    /\ orders[1].orderStatus = "PENDING"
    /\ C23_FailedAfterRestore(1)
    /\ \A r \in Procs : reqs[r].op = "cancelOrder" => reqs[r].code = 500
    /\ \A r \in Procs : free(r)
    /\ stock["p1"] = InitStock /\ salesCount["p1"] = 0
    /\ \A m \in BagToSet(movements) : m.type = "SALE"

-----------------------------------------------------------------------------
(* Claims about who reads and changes an order, under AuthSpec.             *)

\* C25: a requester with role CUSTOMER can never cancel or read an order
\* owned by another user: cancelOrder and getOrderById answer 403 and change
\* nothing, and every body of orders a CUSTOMER is sent holds the
\* requester's own orders only, whatever user id the request names; the
\* other roles are not restricted by ownership, and updateOrderStatus gets
\* past its route guard only for ADMIN and MANAGER.
C25_Reads == {"getOrderById", "getAllOrders", "getUserOrders"}

C25_ReadsOwnOnly ==
    (resp.op \in C25_Reads /\ resp.code = 200 /\ role[resp.u] = "CUSTOMER")
       => \A oid \in resp.data : orders[oid].userId = resp.u

C25_OrderHandlers ==
    /\ \A u \in AuthCallers, oid \in DOMAIN orders :
          /\ (resp'.op = "cancelOrder" /\ CaRead(1, u, oid))
                => IF role[u] = "CUSTOMER" /\ orders[oid].userId # u
                   THEN resp'.code = 403 /\ UNCHANGED <<dbVars, clock>>
                   ELSE resp'.code # 403
          /\ (resp'.op = "getOrderById" /\ GetOrderById(1, u, oid))
                => IF role[u] = "CUSTOMER" /\ orders[oid].userId # u
                   THEN resp'.code = 403 /\ resp'.data = {}
                   ELSE resp'.code = 200 /\ resp'.data = {oid}
          /\ resp'.op = "updateOrderStatus"
                => \A os \in AuthOrderStatuses, ps \in AuthPaymentStatuses :
                      PatchOrderStatus(1, u, oid, os, ps)
                         => ((resp'.code = 403 /\ UNCHANGED <<dbVars, clock>>)
                                <=> role[u] \notin {"ADMIN", "MANAGER"})
    /\ \A u \in AuthCallers, f \in AuthUserIds \cup {None}, s \in ReadStatements :
          (resp'.op = "getAllOrders" /\ GetAllOrders(1, u, f, s))
             => resp'.userId = IF role[u] = "CUSTOMER" THEN u ELSE f
    /\ (resp.op = "getAllOrders" /\ GetAllOrdersRest(1))
          => resp'.code = 200 /\ resp'.data = findManyOrders(resp.userId)

C25_CustomerIsolation == []C25_ReadsOwnOnly /\ [][C25_OrderHandlers]_vars

\* The part of C25 about the handlers of the order routes alone.
C25_OrderRoutesIsolate ==
    /\ [](resp.op \in {"getOrderById", "getAllOrders"}
             => C25_ReadsOwnOnly)
    /\ [][C25_OrderHandlers]_vars

====
